---- MODULE Spec2Model ----
(***************************************************************************)
(* juanPlot: the bar-chart and heatmap wrappers of                         *)
(* src/wheelBuild/juanPlot/__init__.py, one action per wrapper function.   *)
(*                                                                         *)
(* Conventions of the model                                                *)
(*  - chart coordinates are kept in tenths (3.5 is 35), so that the        *)
(*    half-unit positions of the source stay integers;                     *)
(*  - a table cell is an integer expression value >= 0 (FPKM, counts,      *)
(*    percent); a value handed to the renderer is a float, modelled as     *)
(*    <<"num", p, q>> (the reduced fraction p/q), <<"nan", 0, 1>> or       *)
(*    <<"inf", 0, 1>>, which is what numpy's true division yields;         *)
(*  - a palette is a function from keys to colours; a caller's palette     *)
(*    maps every key it holds to the key's own name, so that it is told    *)
(*    apart from the built-in hex colours;                                 *)
(*  - a draw operation is a record with an op field; a surface is the      *)
(*    sequence of the draw operations performed on it.                     *)
(***************************************************************************)
EXTENDS Integers, Sequences, FiniteSets, TLC

VARIABLES
  pc,        \* "idle": no call made on the fresh surfaces; "returned": a call ended;
             \* "repeated": the same call was made again on fresh surfaces and ended
  call,      \* the wrapper called and its arguments
  frame,     \* the locals of that call when it ended (normally or by an exception)
  outcome,   \* "ok", or the exception that ended the call
  surfaces,  \* the draw operations on the explicit surface ax1 and on the current one
  gca,       \* whether plt.gca() was called (the ambient current surface acquired)
  heap,      \* the caller's table and palette objects, as the last call left them
  earlier,   \* what the first of two identical calls returned and drew
  thr        \* the concurrent callers: each one's call and how far it has got

vars == <<pc, call, frame, outcome, surfaces, gca, heap, earlier, thr>>

\* ------------------------------------------------------------------ bounds
\* Concurrent callers that draw on one shared surface are followed until that surface
\* holds MaxShared draw operations.
MaxShared == 10
\* Largest number of rows of an input table.
MaxRows == 2
\* A row of an input table holds k * (c + 1) in column c, for a scale k in 0..MaxScale.
MaxScale == 2

\* ------------------------------------------------------------ numeric helpers
Tenths(i, f) == 10 * i + f

Min(a, b) == IF a < b THEN a ELSE b

RECURSIVE GCD(_, _)
GCD(a, b) == IF b = 0 THEN a ELSE GCD(b, a % b)

\* np.arange(a, b) for integers a <= b, in tenths
arange(a, b) == [i \in 1..(b - a) |-> Tenths(a + i - 1, 0)]

\* Mutant of plus: the offset is one unit short, so that a group appended to the
\* positions starts right next to the group before it.
plus_OneShort(c, s) == [i \in DOMAIN s |-> c - Tenths(1, 0) + s[i]]

\* c + np.arange(...), c in tenths
plus(c, s) == [i \in DOMAIN s |-> c + s[i]]

\* A float holding the integer x.
Float(x) == <<"num", x, 1>>

NaN == <<"nan", 0, 1>>
Inf == <<"inf", 0, 1>>

\* x / m for integers x >= 0 and m >= 0, as numpy divides: 0/0 is nan, x/0 is inf.
TrueDiv(x, m) ==
  IF m = 0 THEN (IF x = 0 THEN NaN ELSE Inf)
  ELSE LET g == GCD(x, m) IN <<"num", x \div g, m \div g>>

\* Series.max() of a row of integers; nan for an empty row.
RowMax(x) == CHOOSE m \in {x[i] : i \in DOMAIN x} : \A i \in DOMAIN x : x[i] <= m

\* np.sum(s[lo-1:hi]): the sum of s[lo], ..., s[hi], by halves
RECURSIVE Sum(_, _, _)
Sum(s, lo, hi) ==
  IF lo > hi THEN 0
  ELSE IF lo = hi THEN s[lo]
  ELSE LET mid == (lo + hi) \div 2 IN Sum(s, lo, mid) + Sum(s, mid + 1, hi)

RowSum(x) == Sum(x, 1, Len(x))

\* Mutant of NormalizeRow: x/x.sum() in place of x/x.max().
NormalizeRow_BySum(x) ==
  IF x = <<>> THEN <<>> ELSE LET m == RowSum(x) IN [i \in DOMAIN x |-> TrueDiv(x[i], m)]

\* lambda x: x/x.max()
NormalizeRow(x) ==
  IF x = <<>> THEN <<>> ELSE LET m == RowMax(x) IN [i \in DOMAIN x |-> TrueDiv(x[i], m)]

\* Mutant of iloc: the slice starts one column late.
iloc_FromNext(row, a, b) ==
  LET n == Min(b, Len(row)) - a - 1 IN [i \in 1..(IF n > 0 THEN n ELSE 0) |-> row[a + 1 + i]]

\* DataFrame.iloc[r, a:b] on one row: a positional slice, cut off at the row's end.
iloc(row, a, b) ==
  LET n == Min(b, Len(row)) - a IN [i \in 1..(IF n > 0 THEN n ELSE 0) |-> row[a + i]]

\* ------------------------------------------------------------------ palettes
\* Python's "not pC": true of None and of an empty dict.
Falsy(pC) == (~pC.given) \/ (DOMAIN pC.map = {})

NonePalette == [given |-> FALSE, map |-> [k \in {} |-> k]]

Custom(keys) == [given |-> TRUE, map |-> [k \in keys |-> k]]

\* plotBars: positions n, slice bounds h_start/h_end, percent offset delta,
\* built-in palette pC and the palette key of every bar (barColors).
cfg_plotBars ==
  [n |-> arange(1, 7) \o plus(Tenths(7, 0), arange(1, 6)) \o plus(Tenths(13, 0), arange(1, 7)) \o plus(Tenths(20, 0), arange(1, 8)) \o plus(Tenths(28, 0), arange(1, 7)),
   h_start |-> 7, h_end |-> 37, delta |-> 0, hasPct |-> FALSE,
   pC |-> [r |-> "#747474", u |-> "#B540B7", s |-> "#4669F2", m |-> "#04CD22",
       l |-> "#CC2C2A", m4 |-> "#cdcd04", onBC |-> "#ccf2ff", offBC |-> "#663d00"],
   barColors |-> <<"r", "r", "r", "r", "r", "r", "u", "u",
       "u", "u", "u", "s", "s", "s", "s", "s",
       "s", "m", "m", "m", "m", "m", "m", "m",
       "l", "l", "l", "l", "l", "l">>]

\* plotBars_Ogawa2021: positions n, slice bounds h_start/h_end, percent offset delta,
\* built-in palette pC and the palette key of every bar (barColors).
cfg_plotBars_Ogawa2021 ==
  [n |-> arange(1, 9),
   h_start |-> 2, h_end |-> 10, delta |-> 9, hasPct |-> TRUE,
   pC |-> [r |-> "#747474", u |-> "#B540B7", s |-> "#4669F2", m |-> "#04CD22",
       l |-> "#CC2C2A", m4 |-> "#cdcd04", onBC |-> "#ccf2ff", offBC |-> "#663d00"],
   barColors |-> <<"r", "u", "s", "m", "l", "m4", "onBC", "offBC">>]

\* Mutant of cfg_plotBars_Hoang2020: delta = 6, so that the percent columns 8:15 start
\* inside the count columns 2:9.
cfg_plotBars_Hoang2020_Delta6 ==
  [n |-> arange(1, 8),
   h_start |-> 2, h_end |-> 9, delta |-> 6, hasPct |-> TRUE,
   pC |-> [r |-> "#747474", u |-> "#B540B7", s |-> "#4669F2", m |-> "#04CD22",
       l |-> "#CC2C2A", m4 |-> "#cdcd04", onBC |-> "#ccf2ff", offBC |-> "#663d00"],
   barColors |-> <<"r", "u", "s", "m", "m", "m4", "l">>]

\* plotBars_Hoang2020: positions n, slice bounds h_start/h_end, percent offset delta,
\* built-in palette pC and the palette key of every bar (barColors).
cfg_plotBars_Hoang2020 ==
  [n |-> arange(1, 8),
   h_start |-> 2, h_end |-> 9, delta |-> 8, hasPct |-> TRUE,
   pC |-> [r |-> "#747474", u |-> "#B540B7", s |-> "#4669F2", m |-> "#04CD22",
       l |-> "#CC2C2A", m4 |-> "#cdcd04", onBC |-> "#ccf2ff", offBC |-> "#663d00"],
   barColors |-> <<"r", "u", "s", "m", "m", "m4", "l">>]

\* plotBars_Sun2018: positions n, slice bounds h_start/h_end, percent offset delta,
\* built-in palette pC and the palette key of every bar (barColors).
cfg_plotBars_Sun2018 ==
  [n |-> arange(1, 5) \o plus(Tenths(5, 0), arange(1, 5)),
   h_start |-> 7, h_end |-> 16, delta |-> 0, hasPct |-> FALSE,
   pC |-> [r |-> "#747474", u |-> "#B540B7", s |-> "#4669F2", m |-> "#04CD22",
       l |-> "#CC2C2A", m4 |-> "#cdcd04", onBC |-> "#ccf2ff", offBC |-> "#663d00"],
   barColors |-> <<"r", "r", "r", "r", "m4", "m4", "m4", "m4">>]

\* plotBars_Hoang2020_Ret: positions n, slice bounds h_start/h_end, percent offset delta,
\* built-in palette pC and the palette key of every bar (barColors).
cfg_plotBars_Hoang2020_Ret ==
  [n |-> arange(1, 18),
   h_start |-> 2, h_end |-> 19, delta |-> 19, hasPct |-> TRUE,
   pC |-> [RPC |-> "#DADADA", PRPC |-> "#dfdac8", Cones_larval |-> "#dcc360", Cones_adult |-> "#ffd429",
       Rods |-> "#7d7d7d", HC |-> "#FC7715", BC_larval |-> "#ccf2ff", BC_adult |-> "#1B98C3",
       AC_larval |-> "#3DF591", ACgaba |-> "#3DF5C3", ACgly |-> "#56F53D", RGC_larval |-> "#F53D59",
       RGC_adult |-> "#BB0622", MGi |-> "#EA9D81", MG1 |-> "#A2644E", MG2 |-> "#7E4835",
       MG3 |-> "#613728"],
   barColors |-> <<"RPC", "PRPC", "Cones_larval", "Cones_adult", "Rods", "HC", "BC_larval", "BC_adult",
       "AC_larval", "ACgaba", "ACgly", "RGC_larval", "RGC_adult", "MGi", "MG1", "MG2",
       "MG3">>]

\* plotBars_Hoang2020_PhotoDev: positions n, slice bounds h_start/h_end, percent offset delta,
\* built-in palette pC and the palette key of every bar (barColors).
cfg_plotBars_Hoang2020_PhotoDev ==
  [n |-> arange(1, 8),
   h_start |-> 2, h_end |-> 9, delta |-> 8, hasPct |-> TRUE,
   pC |-> [RPC |-> "#DADADA", PRP |-> "#dfdac8", Cle |-> "#dacd9a", Clm |-> "#dcc360",
       Cll |-> "#cca819", C |-> "#ffd429", R |-> "#7d7d7d"],
   barColors |-> <<"RPC", "PRP", "Cle", "Clm", "Cll", "C", "R">>]

\* plotBars_Hoang2020_PhotoDev_withcontaminatedlarvalrods: positions n, slice bounds h_start/h_end, percent offset delta,
\* built-in palette pC and the palette key of every bar (barColors).
cfg_plotBars_Hoang2020_PhotoDev_withcontaminatedlarvalrods ==
  [n |-> arange(1, 9),
   h_start |-> 2, h_end |-> 10, delta |-> 9, hasPct |-> TRUE,
   pC |-> [RPC |-> "#DADADA", PRP |-> "#dfdac8", Cle |-> "#dacd9a", Clm |-> "#dcc360",
       Cll |-> "#cca819", C |-> "#ffd429", Rll |-> "#a3a3a3", R |-> "#7d7d7d"],
   barColors |-> <<"RPC", "PRP", "Cle", "Clm", "Cll", "C", "Rll", "R">>]

\* plotBars_Xu2020_RetDev: positions n, slice bounds h_start/h_end, percent offset delta,
\* built-in palette pC and the palette key of every bar (barColors).
cfg_plotBars_Xu2020_RetDev ==
  [n |-> arange(1, 81),
   h_start |-> 2, h_end |-> 82, delta |-> 82, hasPct |-> TRUE,
   pC |-> [RPC24h_prim |-> "#E9E9E9", RPC24h |-> "#D2D2D2", RPC24h_D |-> "#D2B6AF", RPC24h_V |-> "#AFAFD2",
       RPC24h_T |-> "#AFD2B0", RPC24h_N |-> "#D2D1AF", RPC24h_neuro |-> "#F5E5E8", RPC36h_prim |-> "#E9E9E9",
       RPC36h |-> "#D2D2D2", RPC36h_D |-> "#D2B6AF", RPC36h_V |-> "#AFAFD2", RPC36h_T |-> "#AFD2B0",
       RPC36h_N |-> "#D2D1AF", RPC36h_hc |-> "#C5B39D", RPC36h_neuro |-> "#F5E5E8", RPC48h_prim |-> "#E9E9E9",
       RPC48h |-> "#D2D2D2", RPC48h_neuro |-> "#F5E5E8", RPC48h_neuroMix |-> "#F5E5E8", RPC48h_rgc |-> "#EA9D81",
       RPC48h_MG |-> "#F5CCD2", PRPC48h |-> "#dfdac8", Photo48h |-> "#dacd9a", HC48h |-> "#FCCAA5",
       BC48h |-> "#7DAAAF", BC48h_on |-> "#8398B1", BC48h_off |-> "#B16D8A", AC48h |-> "#95F5C1",
       AC48h_gaba |-> "#91F5DA", AC48h_sac |-> "#78AD93", RGC48h |-> "#F53D59", RPC72h_prim |-> "#E9E9E9",
       RPC72h_neuro |-> "#F5E5E8", RPC72h_bc |-> "#CCF2FF", RPC72h_rgc |-> "#F5CCD2", PRPC72h |-> "#DFDAC8",
       Rod72h_early |-> "#A3A3A3", Rod72h |-> "#7D7D7D", Cone72h_early |-> "#DACD9A", Cone72h_earlyL |-> "#D69F9E",
       Cone72h |-> "#DCC360", Cone72h_UV |-> "#B778B9", Cone72h_S |-> "#7183CC", Cone72h_M |-> "#57CB69",
       Cone72h_L |-> "#C67271", Cone72h_lateL |-> "#CE524F", HC72h_early |-> "#FCCBA8", HC72h |-> "#FCA668",
       HC72h_H1 |-> "#C59965", HC72h_H2H3 |-> "#F7909C", BC72h_on |-> "#8398B1", AC72h |-> "#3DF591",
       AC72h_gly |-> "#91F5DA", AC72h_gaba |-> "#95F5C1", AC72h_sac |-> "#78AD93", RGC72h |-> "#F53D59",
       MG72h |-> "#EA9D81", RPC336h_prim |-> "#E9E9E9", RPC336h_neuro |-> "#F5E5E8", RPC336h_bc |-> "#CCF2FF",
       RPC336h_ac |-> "#B5F5D2", RPC336h_rgc |-> "#F5CCD2", PRPC336h |-> "#DFDAC8", Rod336h |-> "#7D7D7D",
       Cone336h |-> "#FFD429", Cone336h_U |-> "#B778B9", Cone336h_S |-> "#7183CC", Cone336h_M |-> "#57CB69",
       Cone336h_L |-> "#C67271", Cone336h_lateL |-> "#CE524F", HC336h |-> "#FCA668", BC336h_on |-> "#8398B1",
       BC336h_off |-> "#B16D8A", AC336h_gaba |-> "#3DF5C3", AC336h_gly |-> "#56F53D", AC336h_ngng |-> "#89AC25",
       AC336h_sac |-> "#78AD93", AC336h_dac |-> "#A4D1D8", RGC336h |-> "#F53D59", MG336h |-> "#EA9D81"],
   barColors |-> <<"RPC24h_prim", "RPC24h", "RPC24h_D", "RPC24h_V", "RPC24h_T", "RPC24h_N", "RPC24h_neuro", "RPC36h_prim",
       "RPC36h", "RPC36h_D", "RPC36h_V", "RPC36h_T", "RPC36h_N", "RPC36h_hc", "RPC36h_neuro", "RPC48h_prim",
       "RPC48h", "RPC48h_neuro", "RPC48h_neuroMix", "RPC48h_rgc", "RPC48h_MG", "PRPC48h", "Photo48h", "HC48h",
       "BC48h", "BC48h_on", "BC48h_off", "AC48h", "AC48h_gaba", "AC48h_sac", "RGC48h", "RPC72h_prim",
       "RPC72h_neuro", "RPC72h_bc", "RPC72h_rgc", "PRPC72h", "Rod72h_early", "Rod72h", "Cone72h_early", "Cone72h_earlyL",
       "Cone72h", "Cone72h_UV", "Cone72h_S", "Cone72h_M", "Cone72h_L", "Cone72h_lateL", "HC72h_early", "HC72h",
       "HC72h_H1", "HC72h_H2H3", "BC72h_on", "AC72h", "AC72h_gly", "AC72h_gaba", "AC72h_sac", "RGC72h",
       "MG72h", "RPC336h_prim", "RPC336h_neuro", "RPC336h_bc", "RPC336h_ac", "RPC336h_rgc", "PRPC336h", "Rod336h",
       "Cone336h", "Cone336h_U", "Cone336h_S", "Cone336h_M", "Cone336h_L", "Cone336h_lateL", "HC336h", "BC336h_on",
       "BC336h_off", "AC336h_gaba", "AC336h_gly", "AC336h_ngng", "AC336h_sac", "AC336h_dac", "RGC336h", "MG336h">>]

\* plotBars_Nerli2022: positions n, slice bounds h_start/h_end, percent offset delta,
\* built-in palette pC and the palette key of every bar (barColors).
cfg_plotBars_Nerli2022 ==
  [n |-> arange(0, 5) \o plus(Tenths(4, 5), arange(1, 6)) \o plus(Tenths(10, 0), arange(1, 6)) \o plus(Tenths(15, 5), arange(1, 6)),
   h_start |-> 1, h_end |-> 21, delta |-> 0, hasPct |-> FALSE,
   pC |-> [RPC |-> "#DADADA", PR |-> "#dcc360", HC_AC |-> "#3DF591", RGC |-> "#F53D59"],
   barColors |-> <<"RPC", "RPC", "RPC", "RPC", "RPC", "PR", "PR", "PR",
       "PR", "PR", "HC_AC", "HC_AC", "HC_AC", "HC_AC", "HC_AC", "RGC",
       "RGC", "RGC", "RGC", "RGC">>]

\* plotBars_Yoshimatsu2020: positions n, slice bounds h_start/h_end, percent offset delta,
\* built-in palette pC and the palette key of every bar (barColors).
cfg_plotBars_Yoshimatsu2020 ==
  [n |-> arange(1, 5) \o plus(Tenths(5, 0), arange(1, 5)),
   h_start |-> 1, h_end |-> 9, delta |-> 0, hasPct |-> FALSE,
   pC |-> [u |-> "#B540B7", u2 |-> "#B789A7"],
   barColors |-> <<"u2", "u2", "u2", "u2", "u", "u", "u", "u">>]

\* ax.set_ylabel('avg. counts'), and after it ax.set_ylabel('% expressing') if pctPlot
ylabel(pctPlot) ==
  <<[op |-> "set_ylabel", label |-> "avg. counts"]>>
  \o (IF pctPlot THEN <<[op |-> "set_ylabel", label |-> "% expressing"]>> ELSE <<>>)

\* Mutant of formatBarPlot: the tick of the M group at 24.5.
formatBarPlot_TickOff(geneSymbol) ==
  <<[op |-> "set_xticks", ticks |-> <<Tenths(3, 5), Tenths(10, 0), Tenths(16, 5), Tenths(24, 5), Tenths(31, 5)>>],
    [op |-> "set_xticklabels", labels |-> <<"Rods", "UV", "S", "M", "L">>],
    [op |-> "set_ylabel", label |-> "FPKM"],
    [op |-> "set_title", label |-> geneSymbol]>>

formatBarPlot(geneSymbol) ==
  <<[op |-> "set_xticks", ticks |-> <<Tenths(3, 5), Tenths(10, 0), Tenths(16, 5), Tenths(24, 0), Tenths(31, 5)>>],
    [op |-> "set_xticklabels", labels |-> <<"Rods", "UV", "S", "M", "L">>],
    [op |-> "set_ylabel", label |-> "FPKM"],
    [op |-> "set_title", label |-> geneSymbol]>>

formatBarPlot_Ogawa2021(geneSymbol, pctPlot) ==
  <<[op |-> "set_xticks", ticks |-> arange(1, 9)],
    [op |-> "set_xticklabels", labels |-> <<"Rods", "UV", "S", "M", "L", "M4",
         "BC$_{on}$", "BC$_{off}$">>]>>
  \o ylabel(pctPlot)
  \o <<[op |-> "set_title", label |-> geneSymbol]>>

formatBarPlot_Hoang2020(geneSymbol, pctPlot) ==
  <<[op |-> "set_xticks", ticks |-> arange(1, 8)],
    [op |-> "set_xticklabels", labels |-> <<"Rods", "UV", "S", "M1", "M3", "M4",
         "L">>]>>
  \o ylabel(pctPlot)
  \o <<[op |-> "set_title", label |-> geneSymbol]>>

formatBarPlot_Sun2018(geneSymbol) ==
  <<[op |-> "set_xticks", ticks |-> <<Tenths(2, 5), Tenths(7, 5)>>],
    [op |-> "set_xticklabels", labels |-> <<"Rods", "notRods">>],
    [op |-> "set_ylabel", label |-> "cpm"],
    [op |-> "set_title", label |-> geneSymbol]>>

formatBarPlot_Hoang2020_Ret(geneSymbol, pctPlot) ==
  <<[op |-> "set_xticks", ticks |-> arange(1, 18)],
    [op |-> "set_xticklabels", labels |-> <<"RPC", "PRPC", "C$_{larval}$", "C$_{adult}$", "R$_{ods}$", "HC",
         "BC$_{larval}$", "BC$_{adult}$", "AC$_{larval}$", "AC$_{GABA}$", "AC$_{Gly}$", "RGC$_{larval}$",
         "RGC$_{adult}$", "MGi", "MG1", "MG2", "MG3">>]>>
  \o ylabel(pctPlot)
  \o <<[op |-> "set_title", label |-> geneSymbol]>>

formatBarPlot_Hoang2020_PhotoDev(geneSymbol, pctPlot) ==
  <<[op |-> "set_xticks", ticks |-> arange(1, 8)],
    [op |-> "set_xticklabels", labels |-> <<"RPC", "PRPC", "Cone$_{larval-early}$", "Cone$_{larval-mid}$", "Cone$_{larval-late}$", "Cone",
         "Rod">>]>>
  \o ylabel(pctPlot)
  \o <<[op |-> "set_title", label |-> geneSymbol]>>

formatBarPlot_Hoang2020_PhotoDev_withcontaminatedlarvalrods(geneSymbol, pctPlot) ==
  <<[op |-> "set_xticks", ticks |-> arange(1, 9)],
    [op |-> "set_xticklabels", labels |-> <<"RPC", "PRPC", "Cone$_{larval-early}$", "Cone$_{larval-mid}$", "Cone$_{larval-late}$", "Cone$",
         "Rod$_{larval-late}$", "Rod">>]>>
  \o ylabel(pctPlot)
  \o <<[op |-> "set_title", label |-> geneSymbol]>>

formatBarPlot_Xu2020_RetDev(geneSymbol, pctPlot) ==
  <<[op |-> "set_xticks", ticks |-> arange(1, 81)],
    [op |-> "set_xticklabels", labels |-> <<"RPC24h_prim", "RPC24h", "RPC24h_D", "RPC24h_V", "RPC24h_T", "RPC24h_N",
         "RPC24h_neuro", "RPC36h_prim", "RPC36h", "RPC36h_D", "RPC36h_V", "RPC36h_T",
         "RPC36h_N", "RPC36h_hc", "RPC36h_neuro", "RPC48h_prim", "RPC48h", "RPC48h_neuro",
         "RPC48h_neuroMix", "RPC48h_rgc", "RPC48h_MG", "PRPC48h", "Photo48h", "HC48h",
         "BC48h", "BC48h_on", "BC48h_off", "AC48h", "AC48h_gaba", "AC48h_sac",
         "RGC48h", "RPC72h_prim", "RPC72h_neuro", "RPC72h_bc", "RPC72h_rgc", "PRPC72h",
         "Rod72h_early", "Rod72h", "Cone72h_early", "Cone72h_earlyL", "Cone72h", "Cone72h_UV",
         "Cone72h_S", "Cone72h_M", "Cone72h_L", "Cone72h_lateL", "HC72h_early", "HC72h",
         "HC72h_H1", "HC72h_H2H3", "BC72h_on", "AC72h", "AC72h_gly", "AC72h_gaba",
         "AC72h_sac", "RGC72h", "MG72h", "RPC336h_prim", "RPC336h_neuro", "RPC336h_bc",
         "RPC336h_ac", "RPC336h_rgc", "PRPC336h", "Rod336h", "Cone336h", "Cone336h_U",
         "Cone336h_S", "Cone336h_M", "Cone336h_L", "Cone336h_lateL", "HC336h", "BC336h_on",
         "BC336h_off", "AC336h_gaba", "AC336h_gly", "AC336h_ngng", "AC336h_sac", "AC336h_dac",
         "RGC336h", "MG336h">>]>>
  \o ylabel(pctPlot)
  \o <<[op |-> "set_title", label |-> geneSymbol]>>

formatBarPlot_Nerli2022(geneSymbol) ==
  <<[op |-> "set_xticks", ticks |-> <<Tenths(2, 0), Tenths(7, 5), Tenths(13, 0), Tenths(18, 5)>>],
    [op |-> "set_xticklabels", labels |-> <<"RPC", "Photo", "HC/AC", "RGC">>],
    [op |-> "set_xticks_minor", ticks |-> <<Tenths(0, 0), Tenths(1, 0), Tenths(2, 0), Tenths(3, 0), Tenths(4, 0), Tenths(5, 5),
                Tenths(6, 5), Tenths(7, 5), Tenths(8, 5), Tenths(9, 5), Tenths(11, 0), Tenths(12, 0),
                Tenths(13, 0), Tenths(14, 0), Tenths(15, 0), Tenths(16, 5), Tenths(17, 5), Tenths(18, 5),
                Tenths(19, 5), Tenths(20, 5)>>],
    [op |-> "set_ylabel", label |-> "counts (norm.)"],
    [op |-> "set_title", label |-> geneSymbol]>>

formatBarPlot_Yoshimatsu2020(geneSymbol) ==
  <<[op |-> "set_xticks", ticks |-> <<Tenths(2, 5), Tenths(7, 5)>>],
    [op |-> "set_xticklabels", labels |-> <<"UV$_{non-sz}$", "UV$_{sz}$">>],
    [op |-> "set_ylabel", label |-> "cpm"],
    [op |-> "set_title", label |-> geneSymbol]>>

\* heatmap: column slice, percent offset delta, colorbar labels, group sizes,
\* built-in palette, palette key and label of every group, label rotation.
cfg_heatmap ==
  [c_start |-> 7, c_end |-> 37, delta |-> 0, hasPct |-> FALSE,
   cbarlabel |-> "FPKM", cbarlabelPct |-> "", cbarlabelNorm |-> "norm. FPKM",
   groupsN |-> <<6, 5, 6, 7, 6>>,
   pC |-> [r |-> "#747474", u |-> "#B540B7", s |-> "#4669F2", m |-> "#04CD22",
       l |-> "#CC2C2A", m4 |-> "#cdcd04", onBC |-> "#ccf2ff", offBC |-> "#663d00"],
   groupsColors |-> <<"r", "u", "s", "m", "l">>,
   groupsLabels |-> <<"Rods", "UV", "S", "M", "L">>,
   groupRotation |-> 0]

\* heatmap_Ogawa2021: column slice, percent offset delta, colorbar labels, group sizes,
\* built-in palette, palette key and label of every group, label rotation.
cfg_heatmap_Ogawa2021 ==
  [c_start |-> 2, c_end |-> 10, delta |-> 9, hasPct |-> TRUE,
   cbarlabel |-> "avg.", cbarlabelPct |-> "%", cbarlabelNorm |-> "",
   groupsN |-> <<1, 1, 1, 1, 1, 1, 1, 1>>,
   pC |-> [r |-> "#747474", u |-> "#B540B7", s |-> "#4669F2", m |-> "#04CD22",
       l |-> "#CC2C2A", m4 |-> "#cdcd04", onBC |-> "#ccf2ff", offBC |-> "#663d00"],
   groupsColors |-> <<"r", "u", "s", "m", "l", "m4", "onBC", "offBC">>,
   groupsLabels |-> <<"Rods", "UV", "S", "M", "L", "M4",
       "B$_{on}$", "B$_{off}$">>,
   groupRotation |-> 0]

\* heatmap_Hoang2020: column slice, percent offset delta, colorbar labels, group sizes,
\* built-in palette, palette key and label of every group, label rotation.
cfg_heatmap_Hoang2020 ==
  [c_start |-> 2, c_end |-> 9, delta |-> 8, hasPct |-> TRUE,
   cbarlabel |-> "avg.", cbarlabelPct |-> "%", cbarlabelNorm |-> "",
   groupsN |-> <<1, 1, 1, 1, 1, 1, 1>>,
   pC |-> [r |-> "#747474", u |-> "#B540B7", s |-> "#4669F2", m |-> "#04CD22",
       l |-> "#CC2C2A", m4 |-> "#cdcd04", onBC |-> "#ccf2ff", offBC |-> "#663d00"],
   groupsColors |-> <<"r", "u", "s", "m", "m", "m4", "l">>,
   groupsLabels |-> <<"Rods", "UV", "S", "M", "M3", "M4",
       "L">>,
   groupRotation |-> 0]

\* heatmap_Sun2018: column slice, percent offset delta, colorbar labels, group sizes,
\* built-in palette, palette key and label of every group, label rotation.
cfg_heatmap_Sun2018 ==
  [c_start |-> 7, c_end |-> 16, delta |-> 0, hasPct |-> FALSE,
   cbarlabel |-> "cpm", cbarlabelPct |-> "", cbarlabelNorm |-> "norm. cpm",
   groupsN |-> <<4, 4>>,
   pC |-> [r |-> "#747474", u |-> "#B540B7", s |-> "#4669F2", m |-> "#04CD22",
       l |-> "#CC2C2A", m4 |-> "#cdcd04", onBC |-> "#ccf2ff", offBC |-> "#663d00"],
   groupsColors |-> <<"r", "m4">>,
   groupsLabels |-> <<"Rods", "notRods">>,
   groupRotation |-> 0]

\* heatmap_Nerli2022: column slice, percent offset delta, colorbar labels, group sizes,
\* built-in palette, palette key and label of every group, label rotation.
cfg_heatmap_Nerli2022 ==
  [c_start |-> 1, c_end |-> 21, delta |-> 0, hasPct |-> FALSE,
   cbarlabel |-> "Counts (norm.)", cbarlabelPct |-> "", cbarlabelNorm |-> "norm. FPKM",
   groupsN |-> <<5, 5, 5, 5>>,
   pC |-> [RPC |-> "#DADADA", PR |-> "#dcc360", HC_AC |-> "#3DF591", RGC |-> "#F53D59"],
   groupsColors |-> <<"RPC", "PR", "HC_AC", "RGC">>,
   groupsLabels |-> <<"RPC", "Photo", "HC/AC", "RGC">>,
   groupRotation |-> 0]

\* heatmap_Yoshimatsu2020: column slice, percent offset delta, colorbar labels, group sizes,
\* built-in palette, palette key and label of every group, label rotation.
cfg_heatmap_Yoshimatsu2020 ==
  [c_start |-> 1, c_end |-> 9, delta |-> 0, hasPct |-> FALSE,
   cbarlabel |-> "cpm", cbarlabelPct |-> "", cbarlabelNorm |-> "norm. cpm",
   groupsN |-> <<4, 4>>,
   pC |-> [u |-> "#B540B7", u2 |-> "#B789A7"],
   groupsColors |-> <<"u2", "u">>,
   groupsLabels |-> <<"UV$_{non-sz}$", "UV$_{sz}$">>,
   groupRotation |-> 0]

\* heatmap_Hoang2020_Ret: column slice, percent offset delta, colorbar labels, group sizes,
\* built-in palette, palette key and label of every group, label rotation.
cfg_heatmap_Hoang2020_Ret ==
  [c_start |-> 2, c_end |-> 19, delta |-> 19, hasPct |-> TRUE,
   cbarlabel |-> "avg.", cbarlabelPct |-> "%", cbarlabelNorm |-> "",
   groupsN |-> <<1, 1, 1, 1, 1, 1, 1, 1, 1, 1, 1, 1, 1, 1, 1, 1, 1>>,
   pC |-> [RPC |-> "#DADADA", PRPC |-> "#dfdac8", Cones_larval |-> "#dcc360", Cones_adult |-> "#ffd429",
       Rods |-> "#7d7d7d", HC |-> "#FC7715", BC_larval |-> "#ccf2ff", BC_adult |-> "#663d00",
       AC_larval |-> "#3DF591", ACgaba |-> "#3DF5C3", ACgly |-> "#56F53D", RGC_larval |-> "#F53D59",
       RGC_adult |-> "#BB0622", MGi |-> "#EA9D81", MG1 |-> "#A2644E", MG2 |-> "#7E4835",
       MG3 |-> "#613728"],
   groupsColors |-> <<"RPC", "PRPC", "Cones_larval", "Cones_adult", "Rods", "HC", "BC_larval", "BC_adult",
       "AC_larval", "ACgaba", "ACgly", "RGC_larval", "RGC_adult", "MGi", "MG1", "MG2",
       "MG3">>,
   groupsLabels |-> <<"RPC", "PRPC", "C$_{larval}$", "C$_{adult}$", "R$_{ods}$", "HC",
       "BC$_{larval}$", "BC$_{adult}$", "AC$_{larval}$", "AC$_{GABA}$", "AC$_{Gly}$", "RGC$_{larval}$",
       "RGC$_{adult}$", "MGi", "MG1", "MG2", "MG3">>,
   groupRotation |-> 45]

\* heatmap_Hoang2020_PhotoDev: column slice, percent offset delta, colorbar labels, group sizes,
\* built-in palette, palette key and label of every group, label rotation.
cfg_heatmap_Hoang2020_PhotoDev ==
  [c_start |-> 2, c_end |-> 9, delta |-> 8, hasPct |-> TRUE,
   cbarlabel |-> "avg.", cbarlabelPct |-> "%", cbarlabelNorm |-> "",
   groupsN |-> <<1, 1, 1, 1, 1, 1, 1>>,
   pC |-> [RPC |-> "#DADADA", PRP |-> "#dfdac8", Cle |-> "#dacd9a", Clm |-> "#dcc360",
       Cll |-> "#cca819", C |-> "#ffd429", R |-> "#7d7d7d"],
   groupsColors |-> <<"RPC", "PRP", "Cle", "Clm", "Cll", "C", "R">>,
   groupsLabels |-> <<"RPC", "PRP", "Cone$_{larval-early}$", "Cone$_{larval-mid}$", "Cone$_{larval-late}$", "Cone",
       "Rod">>,
   groupRotation |-> 45]

\* heatmap_Hoang2020_PhotoDev_withcontaminatedlarvalrods: column slice, percent offset delta, colorbar labels, group sizes,
\* built-in palette, palette key and label of every group, label rotation.
cfg_heatmap_Hoang2020_PhotoDev_withcontaminatedlarvalrods ==
  [c_start |-> 2, c_end |-> 10, delta |-> 9, hasPct |-> TRUE,
   cbarlabel |-> "avg.", cbarlabelPct |-> "%", cbarlabelNorm |-> "",
   groupsN |-> <<1, 1, 1, 1, 1, 1, 1, 1>>,
   pC |-> [RPC |-> "#DADADA", PRP |-> "#dfdac8", Cle |-> "#dacd9a", Clm |-> "#dcc360",
       Cll |-> "#cca819", C |-> "#ffd429", Rll |-> "#a3a3a3", R |-> "#7d7d7d"],
   groupsColors |-> <<"RPC", "PRP", "Cle", "Clm", "Cll", "C", "Rll", "R">>,
   groupsLabels |-> <<"RPC", "PRPC", "Cone$_{larval-early}$", "Cone$_{larval-mid}$", "Cone$_{larval-late}$", "Cone",
       "Rod$_{larval-late}$", "Rod">>,
   groupRotation |-> 45]

\* heatmap_Xu2020_RetDev: column slice, percent offset delta, colorbar labels, group sizes,
\* built-in palette, palette key and label of every group, label rotation.
cfg_heatmap_Xu2020_RetDev ==
  [c_start |-> 2, c_end |-> 82, delta |-> 81, hasPct |-> TRUE,
   cbarlabel |-> "avg.", cbarlabelPct |-> "%", cbarlabelNorm |-> "",
   groupsN |-> <<1, 1, 1, 1, 1, 1, 1, 1, 1, 1, 1, 1, 1, 1, 1, 1, 1, 1, 1, 1,
       1, 1, 1, 1, 1, 1, 1, 1, 1, 1, 1, 1, 1, 1, 1, 1, 1, 1, 1, 1,
       1, 1, 1, 1, 1, 1, 1, 1, 1, 1, 1, 1, 1, 1, 1, 1, 1, 1, 1, 1,
       1, 1, 1, 1, 1, 1, 1, 1, 1, 1, 1, 1, 1, 1, 1, 1, 1, 1, 1, 1>>,
   pC |-> [RPC24h_prim |-> "#E9E9E9", RPC24h |-> "#D2D2D2", RPC24h_D |-> "#D2B6AF", RPC24h_V |-> "#AFAFD2",
       RPC24h_T |-> "#AFD2B0", RPC24h_N |-> "#D2D1AF", RPC24h_neuro |-> "#F5E5E8", RPC36h_prim |-> "#E9E9E9",
       RPC36h |-> "#D2D2D2", RPC36h_D |-> "#D2B6AF", RPC36h_V |-> "#AFAFD2", RPC36h_T |-> "#AFD2B0",
       RPC36h_N |-> "#D2D1AF", RPC36h_hc |-> "#C5B39D", RPC36h_neuro |-> "#F5E5E8", RPC48h_prim |-> "#E9E9E9",
       RPC48h |-> "#D2D2D2", RPC48h_neuro |-> "#F5E5E8", RPC48h_neuroMix |-> "#F5E5E8", RPC48h_rgc |-> "#EA9D81",
       RPC48h_MG |-> "#F5CCD2", PRPC48h |-> "#dfdac8", Photo48h |-> "#dacd9a", HC48h |-> "#FCCAA5",
       BC48h |-> "#7DAAAF", BC48h_on |-> "#8398B1", BC48h_off |-> "#B16D8A", AC48h |-> "#95F5C1",
       AC48h_gaba |-> "#91F5DA", AC48h_sac |-> "#78AD93", RGC48h |-> "#F53D59", RPC72h_prim |-> "#E9E9E9",
       RPC72h_neuro |-> "#F5E5E8", RPC72h_bc |-> "#CCF2FF", RPC72h_rgc |-> "#F5CCD2", PRPC72h |-> "#DFDAC8",
       Rod72h_early |-> "#A3A3A3", Rod72h |-> "#7D7D7D", Cone72h_early |-> "#DACD9A", Cone72h_earlyL |-> "#D69F9E",
       Cone72h |-> "#DCC360", Cone72h_UV |-> "#B778B9", Cone72h_S |-> "#7183CC", Cone72h_M |-> "#57CB69",
       Cone72h_L |-> "#C67271", Cone72h_lateL |-> "#CE524F", HC72h_early |-> "#FCCBA8", HC72h |-> "#FCA668",
       HC72h_H1 |-> "#C59965", HC72h_H2H3 |-> "#F7909C", BC72h_on |-> "#8398B1", AC72h |-> "#3DF591",
       AC72h_gly |-> "#91F5DA", AC72h_gaba |-> "#95F5C1", AC72h_sac |-> "#78AD93", RGC72h |-> "#F53D59",
       MG72h |-> "#EA9D81", RPC336h_prim |-> "#E9E9E9", RPC336h_neuro |-> "#F5E5E8", RPC336h_bc |-> "#CCF2FF",
       RPC336h_ac |-> "#B5F5D2", RPC336h_rgc |-> "#F5CCD2", PRPC336h |-> "#DFDAC8", Rod336h |-> "#7D7D7D",
       Cone336h |-> "#FFD429", Cone336h_U |-> "#B778B9", Cone336h_S |-> "#7183CC", Cone336h_M |-> "#57CB69",
       Cone336h_L |-> "#C67271", Cone336h_lateL |-> "#CE524F", HC336h |-> "#FCA668", BC336h_on |-> "#8398B1",
       BC336h_off |-> "#B16D8A", AC336h_gaba |-> "#3DF5C3", AC336h_gly |-> "#56F53D", AC336h_ngng |-> "#89AC25",
       AC336h_sac |-> "#78AD93", AC336h_dac |-> "#A4D1D8", RGC336h |-> "#F53D59", MG336h |-> "#EA9D81"],
   groupsColors |-> <<"RPC24h_prim", "RPC24h", "RPC24h_D", "RPC24h_V", "RPC24h_T", "RPC24h_N", "RPC24h_neuro", "RPC36h_prim",
       "RPC36h", "RPC36h_D", "RPC36h_V", "RPC36h_T", "RPC36h_N", "RPC36h_hc", "RPC36h_neuro", "RPC48h_prim",
       "RPC48h", "RPC48h_neuro", "RPC48h_neuroMix", "RPC48h_rgc", "RPC48h_MG", "PRPC48h", "Photo48h", "HC48h",
       "BC48h", "BC48h_on", "BC48h_off", "AC48h", "AC48h_gaba", "AC48h_sac", "RGC48h", "RPC72h_prim",
       "RPC72h_neuro", "RPC72h_bc", "RPC72h_rgc", "PRPC72h", "Rod72h_early", "Rod72h", "Cone72h_early", "Cone72h_earlyL",
       "Cone72h", "Cone72h_UV", "Cone72h_S", "Cone72h_M", "Cone72h_L", "Cone72h_lateL", "HC72h_early", "HC72h",
       "HC72h_H1", "HC72h_H2H3", "BC72h_on", "AC72h", "AC72h_gly", "AC72h_gaba", "AC72h_sac", "RGC72h",
       "MG72h", "RPC336h_prim", "RPC336h_neuro", "RPC336h_bc", "RPC336h_ac", "RPC336h_rgc", "PRPC336h", "Rod336h",
       "Cone336h", "Cone336h_U", "Cone336h_S", "Cone336h_M", "Cone336h_L", "Cone336h_lateL", "HC336h", "BC336h_on",
       "BC336h_off", "AC336h_gaba", "AC336h_gly", "AC336h_ngng", "AC336h_sac", "AC336h_dac", "RGC336h", "MG336h">>,
   groupsLabels |-> <<"RPC24h_prim", "RPC24h", "RPC24h_D", "RPC24h_V", "RPC24h_T", "RPC24h_N",
       "RPC24h_neuro", "RPC36h_prim", "RPC36h", "RPC36h_D", "RPC36h_V", "RPC36h_T",
       "RPC36h_N", "RPC36h_hc", "RPC36h_neuro", "RPC48h_prim", "RPC48h", "RPC48h_neuro",
       "RPC48h_neuroMix", "RPC48h_rgc", "RPC48h_MG", "PRPC48h", "Photo48h", "HC48h",
       "BC48h", "BC48h_on", "BC48h_off", "AC48h", "AC48h_gaba", "AC48h_sac",
       "RGC48h", "RPC72h_prim", "RPC72h_neuro", "RPC72h_bc", "RPC72h_rgc", "PRPC72h",
       "Rod72h_early", "Rod72h", "Cone72h_early", "Cone72h_earlyL", "Cone72h", "Cone72h_UV",
       "Cone72h_S", "Cone72h_M", "Cone72h_L", "Cone72h_lateL", "HC72h_early", "HC72h",
       "HC72h_H1", "HC72h_H2H3", "BC72h_on", "AC72h", "AC72h_gly", "AC72h_gaba",
       "AC72h_sac", "RGC72h", "MG72h", "RPC336h_prim", "RPC336h_neuro", "RPC336h_bc",
       "RPC336h_ac", "RPC336h_rgc", "PRPC336h", "Rod336h", "Cone336h", "Cone336h_U",
       "Cone336h_S", "Cone336h_M", "Cone336h_L", "Cone336h_lateL", "HC336h", "BC336h_on",
       "BC336h_off", "AC336h_gaba", "AC336h_gly", "AC336h_ngng", "AC336h_sac", "AC336h_dac",
       "RGC336h", "MG336h">>,
   groupRotation |-> 45]

\* ------------------------------------------------------- the bar wrappers
\* ax.bar(n, h, width=0.8, color=barColors): x and height are broadcast against each
\* other before anything is drawn; shapes that do not broadcast raise ValueError.
Broadcasts(n, h) == Len(n) = Len(h) \/ Len(n) = 1 \/ Len(h) = 1

bar(n, h, barColors) ==
  LET N == IF Len(n) > Len(h) THEN Len(n) ELSE Len(h) IN
  [op |-> "bar",
   x |-> [i \in 1..N |-> IF Len(n) = 1 THEN n[1] ELSE n[i]],
   height |-> [i \in 1..N |-> IF Len(h) = 1 THEN h[1] ELSE h[i]],
   width |-> Tenths(0, 8),
   color |-> [i \in 1..N |-> barColors[((i - 1) % Len(barColors)) + 1]]]

\* Mutant of plotBarsBody: the palette is resolved and barColors is built before row 0
\* of the table is read.
plotBarsBody_PaletteFirst(cfg, format, barData, ax, pC, pctPlot) ==
  LET n == cfg.n
      delta == IF pctPlot THEN cfg.delta ELSE 0
      h_start == cfg.h_start + delta
      h_end == cfg.h_end + delta
      palette == IF Falsy(pC) THEN cfg.pC ELSE pC.map
  IN
  IF \E i \in DOMAIN cfg.barColors : cfg.barColors[i] \notin DOMAIN palette
  THEN [outcome |-> "KeyError", gca |-> FALSE, ops |-> <<>>,
        frame |-> [reached |-> "barColors", n |-> n, h_start |-> h_start, h_end |-> h_end,
                   h |-> <<>>, barColors |-> <<>>]]
  ELSE
    LET barColors == [i \in DOMAIN cfg.barColors |-> palette[cfg.barColors[i]]]
    IN
    IF Len(barData.values) = 0
    THEN [outcome |-> "IndexError", gca |-> FALSE, ops |-> <<>>,
          frame |-> [reached |-> "iloc", n |-> n, h_start |-> h_start, h_end |-> h_end,
                     h |-> <<>>, barColors |-> barColors]]
    ELSE
      LET row == iloc(barData.values[1], h_start, h_end)
          h == [i \in DOMAIN row |-> Float(row[i])]
          fr == [reached |-> "bar", n |-> n, h_start |-> h_start, h_end |-> h_end,
                 h |-> h, barColors |-> barColors]
      IN
      IF ~Broadcasts(n, h)
      THEN [outcome |-> "ValueError", gca |-> (ax = "None"), ops |-> <<>>, frame |-> fr]
      ELSE [outcome |-> "ok", gca |-> (ax = "None"),
            ops |-> <<bar(n, h, barColors)>> \o format, frame |-> fr]

\* The body shared by the plotBars* functions: cfg holds the literals of one of them,
\* format the draw operations of the formatBarPlot* function it calls.
plotBarsBody(cfg, format, barData, ax, pC, pctPlot) ==
  LET n == cfg.n
      delta == IF pctPlot THEN cfg.delta ELSE 0
      h_start == cfg.h_start + delta
      h_end == cfg.h_end + delta
  IN
  IF Len(barData.values) = 0
  THEN \* barData.iloc[0, ...] on a table without rows
       [outcome |-> "IndexError", gca |-> FALSE, ops |-> <<>>,
        frame |-> [reached |-> "iloc", n |-> n, h_start |-> h_start, h_end |-> h_end,
                   h |-> <<>>, barColors |-> <<>>]]
  ELSE
    LET row == iloc(barData.values[1], h_start, h_end)
        h == [i \in DOMAIN row |-> Float(row[i])]
        palette == IF Falsy(pC) THEN cfg.pC ELSE pC.map
    IN
    IF \E i \in DOMAIN cfg.barColors : cfg.barColors[i] \notin DOMAIN palette
    THEN [outcome |-> "KeyError", gca |-> FALSE, ops |-> <<>>,
          frame |-> [reached |-> "barColors", n |-> n, h_start |-> h_start, h_end |-> h_end,
                     h |-> h, barColors |-> <<>>]]
    ELSE
      LET barColors == [i \in DOMAIN cfg.barColors |-> palette[cfg.barColors[i]]]
          fr == [reached |-> "bar", n |-> n, h_start |-> h_start, h_end |-> h_end,
                 h |-> h, barColors |-> barColors]
      IN
      IF ~Broadcasts(n, h)
      THEN [outcome |-> "ValueError", gca |-> (ax = "None"), ops |-> <<>>, frame |-> fr]
      ELSE [outcome |-> "ok", gca |-> (ax = "None"),
            ops |-> <<bar(n, h, barColors)>> \o format, frame |-> fr]

\* ----------------------------------------------------------- heatmap_general
\* Mutant of Placeholder: np.zeros in place of np.ones.
Placeholder_Zeros(C) ==
  [rows |-> [i \in 1..2 |-> [j \in 1..C |-> Float(0)]], shape |-> <<2, C>>,
   row_labels |-> <<"not found", "not found">>]

\* np.ones([2, C]) with the two "not found" labels
Placeholder(C) ==
  [rows |-> [i \in 1..2 |-> [j \in 1..C |-> Float(1)]], shape |-> <<2, C>>,
   row_labels |-> <<"not found", "not found">>]

\* Mutant of Drawn: the "not found" labels replace row_labels whether or not data has rows.
Drawn_LabelsAlwaysReplaced(data, row_labels) ==
  IF data.shape[1] = 0 THEN Placeholder(data.shape[2])
  ELSE [rows |-> data.rows, shape |-> data.shape, row_labels |-> <<"not found", "not found">>]

\* The block that is drawn: the placeholder when data has no rows.
Drawn(data, row_labels) ==
  IF data.shape[1] = 0 THEN Placeholder(data.shape[2])
  ELSE [rows |-> data.rows, shape |-> data.shape, row_labels |-> row_labels]

\* base + s[lo], base + s[lo] + s[lo+1], ..., up to s[hi], by halves
RECURSIVE PrefixSums(_, _, _, _)
PrefixSums(s, lo, hi, base) ==
  IF lo > hi THEN <<>>
  ELSE IF lo = hi THEN <<base + s[lo]>>
  ELSE LET mid == (lo + hi) \div 2
           left == PrefixSums(s, lo, mid, base)
       IN left \o PrefixSums(s, mid + 1, hi, left[Len(left)])

\* cumsum[k + 1] is np.sum(groupsN[:k]), for k in 0..i
CumSum(groupsN, i) == <<0>> \o PrefixSums(groupsN, 1, i, 0)

\* Mutant of GroupOps: the label of a group is placed at the group's left edge.
GroupOps_LabelAtEdge(i, k, R, c, groupsColors, groupsLabels, groupRotation) ==
  LET lo == Tenths(c[i + 1], 0) - 5
      hi == Tenths(c[i + 2], 0) - 5
  IN CASE k = 0 -> [op |-> "axvline", x |-> hi, color |-> "white"]
       [] k = 1 -> [op |-> "plot", x |-> <<lo, hi>>, y |-> <<-5, -5>>, color |-> groupsColors[i + 1]]
       [] k = 2 -> [op |-> "plot", x |-> <<lo, hi>>,
                    y |-> <<Tenths(R, 0) - 5, Tenths(R, 0) - 5>>, color |-> groupsColors[i + 1]]
       [] k = 3 -> [op |-> "text", x |-> lo, y |-> -10, s |-> groupsLabels[i + 1],
                    color |-> groupsColors[i + 1],
                    ha |-> IF groupRotation = 0 THEN "center" ELSE "left",
                    rotation |-> groupRotation]

\* The four draw operations of group i (0-based) in the loop over groupsN; c is
\* CumSum(groupsN, Len(groupsN)).
GroupOps(i, k, R, c, groupsColors, groupsLabels, groupRotation) ==
  LET lo == Tenths(c[i + 1], 0) - 5
      hi == Tenths(c[i + 2], 0) - 5
      mid == ((Tenths(c[i + 1], 0) + Tenths(c[i + 2], 0)) \div 2) - 5
  IN CASE k = 0 -> [op |-> "axvline", x |-> hi, color |-> "white"]
       [] k = 1 -> [op |-> "plot", x |-> <<lo, hi>>, y |-> <<-5, -5>>, color |-> groupsColors[i + 1]]
       [] k = 2 -> [op |-> "plot", x |-> <<lo, hi>>,
                    y |-> <<Tenths(R, 0) - 5, Tenths(R, 0) - 5>>, color |-> groupsColors[i + 1]]
       [] k = 3 -> [op |-> "text", x |-> mid, y |-> -10, s |-> groupsLabels[i + 1],
                    color |-> groupsColors[i + 1],
                    ha |-> IF groupRotation = 0 THEN "center" ELSE "left",
                    rotation |-> groupRotation]

\* Mutant of gridlines: np.arange(-.5, n - .5), one line short on each axis.
gridlines_OneShort(R, C) ==
  [i \in 1..R |-> [op |-> "axhline", y |-> Tenths(i - 1, 0) - 5, color |-> "black"]]
  \o [j \in 1..C |-> [op |-> "axvline", x |-> Tenths(j - 1, 0) - 5, color |-> "black"]]

\* The two loops over np.arange(-.5, data.shape[0]+.5) and np.arange(-.5, data.shape[1]+.5):
\* a black line at -0.5, 0.5, ..., n - 0.5 on each axis.
gridlines(R, C) ==
  [i \in 1..(R + 1) |-> [op |-> "axhline", y |-> Tenths(i - 1, 0) - 5, color |-> "black"]]
  \o [j \in 1..(C + 1) |-> [op |-> "axvline", x |-> Tenths(j - 1, 0) - 5, color |-> "black"]]

heatmap_general(data, row_labels, col_labels, groupsN, groupsColors, groupsLabels, cbarlabel, groupRotation) ==
  LET d == Drawn(data, row_labels)
      R == d.shape[1]
      C == d.shape[2]
      G == Len(groupsN)
      c == CumSum(groupsN, G)
  IN <<[op |-> "imshow", data |-> d.rows, shape |-> d.shape],
       [op |-> "colorbar", label |-> cbarlabel],
       [op |-> "set_xticks", ticks |-> [j \in 1..C |-> Tenths(j - 1, 0)]],
       [op |-> "set_yticks", ticks |-> [i \in 1..R |-> Tenths(i - 1, 0)]],
       [op |-> "set_xticklabels", labels |-> col_labels],
       [op |-> "set_yticklabels", labels |-> d.row_labels]>>
     \o gridlines(R, C)
     \o <<[op |-> "axvline", x |-> -5, color |-> "white"],
          [op |-> "axvline", x |-> Tenths(c[G + 1], 0) - 5, color |-> "white"]>>
     \o [j \in 1..(4 * G) |->
           GroupOps((j - 1) \div 4, (j - 1) % 4, R, c, groupsColors, groupsLabels,
                    groupRotation)]

\* --------------------------------------------------- the heatmap wrappers
\* The body shared by the heatmap* wrappers: cfg holds the literals of one of them.
heatmapBody(cfg, heatmapData, ax, pC, pctPlot, norm) ==
  LET genenames == heatmapData.symbol
      delta == IF pctPlot THEN cfg.delta ELSE 0
      c_start == cfg.c_start + delta
      c_end == cfg.c_end + delta
      sliced == [r \in DOMAIN heatmapData.values |-> iloc(heatmapData.values[r], c_start, c_end)]
      width == IF Min(c_end, heatmapData.ncols) > c_start
               THEN Min(c_end, heatmapData.ncols) - c_start ELSE 0
      unit == IF pctPlot THEN cfg.cbarlabelPct ELSE cfg.cbarlabel
      cbarlabel == IF ~norm THEN unit
                   ELSE IF cfg.hasPct THEN "norm. " \o unit ELSE cfg.cbarlabelNorm
      data == [rows |-> [r \in DOMAIN sliced |->
                          IF norm THEN NormalizeRow(sliced[r])
                          ELSE [i \in DOMAIN sliced[r] |-> Float(sliced[r][i])]],
               shape |-> <<Len(sliced), width>>]
      groupsN == cfg.groupsN
      groupsLabels == cfg.groupsLabels
      palette == IF Falsy(pC) THEN cfg.pC ELSE pC.map
  IN
  IF \E i \in DOMAIN cfg.groupsColors : cfg.groupsColors[i] \notin DOMAIN palette
  THEN [outcome |-> "KeyError", gca |-> FALSE, ops |-> <<>>,
        frame |-> [reached |-> "groupsColors", c_start |-> c_start, c_end |-> c_end, data |-> data, genenames |-> genenames,
                   cbarlabel |-> cbarlabel, groupsN |-> groupsN, groupsColors |-> <<>>,
                   groupsLabels |-> <<>>]]
  ELSE
    LET groupsColors == [i \in DOMAIN cfg.groupsColors |-> palette[cfg.groupsColors[i]]]
    IN [outcome |-> "ok", gca |-> (ax = "None"),
        ops |-> heatmap_general(data, genenames, <<>>, groupsN, groupsColors, groupsLabels,
                                cbarlabel, cfg.groupRotation),
        frame |-> [reached |-> "heatmap_general", c_start |-> c_start, c_end |-> c_end, data |-> data, genenames |-> genenames,
                   cbarlabel |-> cbarlabel, groupsN |-> groupsN, groupsColors |-> groupsColors,
                   groupsLabels |-> groupsLabels]]

\* ------------------------------------------------------------------- inputs
\* Table widths (number of columns), chosen on both sides of the datasets' column ranges.
TableWidths == {8, 15, 16, 38, 164}

GeneNames == <<"rho", "opn1sw1", "opn1sw2", "opn1mw1", "opn1lw1", "gnat2">>

\* The table of width w with R rows: row i is named GeneNames[i] and holds k * (c + 1)
\* in column c (0-based), where the scale k of the first row is k0 and each further
\* row takes the next scale, cyclically in 0..MaxScale.
Table(w, R, k0) ==
  [ncols |-> w,
   symbol |-> [i \in 1..R |-> GeneNames[i]],
   values |-> [i \in 1..R |-> [c \in 1..w |-> ((k0 + i - 1) % (MaxScale + 1)) * c]]]

Tables == {Table(w, R, k0) : w \in TableWidths, R \in 0..MaxRows, k0 \in 0..MaxScale}

GeneSymbols == {"rho"}

\* The ax argument: None, or a surface of the caller's own.
Axes == {"None", "ax1"}

\* Every key of a built-in palette.
AllKeys ==
  DOMAIN cfg_plotBars.pC \cup DOMAIN cfg_plotBars_Hoang2020_Ret.pC
  \cup DOMAIN cfg_plotBars_Hoang2020_PhotoDev_withcontaminatedlarvalrods.pC
  \cup DOMAIN cfg_plotBars_Xu2020_RetDev.pC \cup DOMAIN cfg_plotBars_Nerli2022.pC
  \cup DOMAIN cfg_plotBars_Yoshimatsu2020.pC

\* The pC argument: None, an empty dict, a dict with every key, a dict lacking 'm4' and
\* a dict lacking one key of every dataset.
Palettes ==
  {NonePalette, Custom({}), Custom(AllKeys), Custom(AllKeys \ {"m4"}),
   Custom(AllKeys \ {"u", "RPC", "MG336h"})}

\* The literals of the wrapper called.
CfgOf(fn) ==
  CASE
       fn = "plotBars" -> cfg_plotBars
    [] fn = "plotBars_Ogawa2021" -> cfg_plotBars_Ogawa2021
    [] fn = "plotBars_Hoang2020" -> cfg_plotBars_Hoang2020
    [] fn = "plotBars_Sun2018" -> cfg_plotBars_Sun2018
    [] fn = "plotBars_Hoang2020_Ret" -> cfg_plotBars_Hoang2020_Ret
    [] fn = "plotBars_Hoang2020_PhotoDev" -> cfg_plotBars_Hoang2020_PhotoDev
    [] fn = "plotBars_Hoang2020_PhotoDev_withcontaminatedlarvalrods" -> cfg_plotBars_Hoang2020_PhotoDev_withcontaminatedlarvalrods
    [] fn = "plotBars_Xu2020_RetDev" -> cfg_plotBars_Xu2020_RetDev
    [] fn = "plotBars_Nerli2022" -> cfg_plotBars_Nerli2022
    [] fn = "plotBars_Yoshimatsu2020" -> cfg_plotBars_Yoshimatsu2020
    [] fn = "heatmap" -> cfg_heatmap
    [] fn = "heatmap_Ogawa2021" -> cfg_heatmap_Ogawa2021
    [] fn = "heatmap_Hoang2020" -> cfg_heatmap_Hoang2020
    [] fn = "heatmap_Sun2018" -> cfg_heatmap_Sun2018
    [] fn = "heatmap_Nerli2022" -> cfg_heatmap_Nerli2022
    [] fn = "heatmap_Yoshimatsu2020" -> cfg_heatmap_Yoshimatsu2020
    [] fn = "heatmap_Hoang2020_Ret" -> cfg_heatmap_Hoang2020_Ret
    [] fn = "heatmap_Hoang2020_PhotoDev" -> cfg_heatmap_Hoang2020_PhotoDev
    [] fn = "heatmap_Hoang2020_PhotoDev_withcontaminatedlarvalrods" -> cfg_heatmap_Hoang2020_PhotoDev_withcontaminatedlarvalrods
    [] fn = "heatmap_Xu2020_RetDev" -> cfg_heatmap_Xu2020_RetDev

\* The draw operations of the formatBarPlot* function the bar wrapper fn calls.
FormatOf(fn, geneSymbol, pctPlot) ==
  CASE
       fn = "plotBars" -> formatBarPlot(geneSymbol)
    [] fn = "plotBars_Ogawa2021" -> formatBarPlot_Ogawa2021(geneSymbol, pctPlot)
    [] fn = "plotBars_Hoang2020" -> formatBarPlot_Hoang2020(geneSymbol, pctPlot)
    [] fn = "plotBars_Sun2018" -> formatBarPlot_Sun2018(geneSymbol)
    [] fn = "plotBars_Hoang2020_Ret" -> formatBarPlot_Hoang2020_Ret(geneSymbol, pctPlot)
    [] fn = "plotBars_Hoang2020_PhotoDev" -> formatBarPlot_Hoang2020_PhotoDev(geneSymbol, pctPlot)
    [] fn = "plotBars_Hoang2020_PhotoDev_withcontaminatedlarvalrods" -> formatBarPlot_Hoang2020_PhotoDev(geneSymbol, pctPlot)
    [] fn = "plotBars_Xu2020_RetDev" -> formatBarPlot_Xu2020_RetDev(geneSymbol, pctPlot)
    [] fn = "plotBars_Nerli2022" -> formatBarPlot_Nerli2022(geneSymbol)
    [] fn = "plotBars_Yoshimatsu2020" -> formatBarPlot_Yoshimatsu2020(geneSymbol)

\* The wrapper c.fn run on the arguments of the call c.
Body(c) ==
  IF c.kind = "bar"
  THEN plotBarsBody(CfgOf(c.fn), FormatOf(c.fn, c.geneSymbol, c.pctPlot), c.table, c.ax, c.pC, c.pctPlot)
  ELSE heatmapBody(CfgOf(c.fn), c.table, c.ax, c.pC, c.pctPlot, c.norm)

\* Mutant of ObjectsAfter: the call empties the palette dict it was given.
ObjectsAfter_PaletteCleared(c) ==
  [table |-> c.table, pC |-> IF c.pC.given THEN Custom({}) ELSE c.pC]

\* Mutant of ObjectsAfter: a normalizing heatmap call writes x // x.max() back into the
\* columns of the table it sliced.
ObjectsAfter_WrittenBack(c) ==
  [table |-> IF c.kind = "heatmap" /\ c.norm
             THEN [c.table EXCEPT !.values =
                     [r \in DOMAIN @ |->
                        [j \in DOMAIN @[r] |->
                           IF j > CfgOf(c.fn).c_start /\ RowMax(@[r]) > 0
                           THEN @[r][j] \div RowMax(@[r]) ELSE @[r][j]]]]
             ELSE c.table,
   pC |-> c.pC]

\* The caller's objects after the call c.  The wrappers only read them: h, data and the
\* normalized block are new arrays (.to_numpy(), .values, .apply), "pC = {...}" and
\* "data = np.ones(...)" rebind local names, and the default arguments are None.
ObjectsAfter(c) == [table |-> c.table, pC |-> c.pC]

\* ------------------------------------------------------------ specification
FreshSurfaces == [s \in {"ax1", "current"} |-> <<>>]

NoCall == [fn |-> "", kind |-> "", table |-> Table(0, 0, 0), geneSymbol |-> "",
           ax |-> "None", pC |-> NonePalette, pctPlot |-> FALSE, norm |-> FALSE]

NoHeap == [table |-> Table(0, 0, 0), pC |-> NonePalette]

NoFirst == [outcome |-> "", ops |-> <<>>]

NoThreads == <<>>

Init ==
  /\ pc = "idle"
  /\ call = NoCall
  /\ frame = [reached |-> ""]
  /\ outcome = "ok"
  /\ surfaces = FreshSurfaces
  /\ gca = FALSE
  /\ heap = NoHeap
  /\ earlier = NoFirst
  /\ thr = NoThreads

\* The call c ends with result r: its draw operations are on the surface it drew on.
Return(c, r) ==
  /\ pc' = "returned"
  /\ call' = c
  /\ frame' = r.frame
  /\ outcome' = r.outcome
  /\ gca' = r.gca
  /\ surfaces' = [surfaces EXCEPT ![IF c.ax = "None" THEN "current" ELSE c.ax] = @ \o r.ops]
  /\ heap' = ObjectsAfter(c)
  /\ earlier' = earlier
  /\ thr' = thr

plotBars ==
  /\ pc = "idle"
  /\ \E barData \in Tables, geneSymbol \in GeneSymbols, ax \in Axes, pC \in Palettes :
       Return([fn |-> "plotBars", kind |-> "bar", table |-> barData, geneSymbol |-> geneSymbol,
              ax |-> ax, pC |-> pC, pctPlot |-> FALSE, norm |-> FALSE],
              plotBarsBody(cfg_plotBars, formatBarPlot(geneSymbol), barData, ax, pC, FALSE))

plotBars_Ogawa2021 ==
  /\ pc = "idle"
  /\ \E barData \in Tables, geneSymbol \in GeneSymbols, ax \in Axes, pC \in Palettes, pctPlot \in BOOLEAN :
       Return([fn |-> "plotBars_Ogawa2021", kind |-> "bar", table |-> barData, geneSymbol |-> geneSymbol,
              ax |-> ax, pC |-> pC, pctPlot |-> pctPlot, norm |-> FALSE],
              plotBarsBody(cfg_plotBars_Ogawa2021, formatBarPlot_Ogawa2021(geneSymbol, pctPlot), barData, ax, pC, pctPlot))

plotBars_Hoang2020 ==
  /\ pc = "idle"
  /\ \E barData \in Tables, geneSymbol \in GeneSymbols, ax \in Axes, pC \in Palettes, pctPlot \in BOOLEAN :
       Return([fn |-> "plotBars_Hoang2020", kind |-> "bar", table |-> barData, geneSymbol |-> geneSymbol,
              ax |-> ax, pC |-> pC, pctPlot |-> pctPlot, norm |-> FALSE],
              plotBarsBody(cfg_plotBars_Hoang2020, formatBarPlot_Hoang2020(geneSymbol, pctPlot), barData, ax, pC, pctPlot))

plotBars_Sun2018 ==
  /\ pc = "idle"
  /\ \E barData \in Tables, geneSymbol \in GeneSymbols, ax \in Axes, pC \in Palettes :
       Return([fn |-> "plotBars_Sun2018", kind |-> "bar", table |-> barData, geneSymbol |-> geneSymbol,
              ax |-> ax, pC |-> pC, pctPlot |-> FALSE, norm |-> FALSE],
              plotBarsBody(cfg_plotBars_Sun2018, formatBarPlot_Sun2018(geneSymbol), barData, ax, pC, FALSE))

plotBars_Hoang2020_Ret ==
  /\ pc = "idle"
  /\ \E barData \in Tables, geneSymbol \in GeneSymbols, ax \in Axes, pC \in Palettes, pctPlot \in BOOLEAN :
       Return([fn |-> "plotBars_Hoang2020_Ret", kind |-> "bar", table |-> barData, geneSymbol |-> geneSymbol,
              ax |-> ax, pC |-> pC, pctPlot |-> pctPlot, norm |-> FALSE],
              plotBarsBody(cfg_plotBars_Hoang2020_Ret, formatBarPlot_Hoang2020_Ret(geneSymbol, pctPlot), barData, ax, pC, pctPlot))

plotBars_Hoang2020_PhotoDev ==
  /\ pc = "idle"
  /\ \E barData \in Tables, geneSymbol \in GeneSymbols, ax \in Axes, pC \in Palettes, pctPlot \in BOOLEAN :
       Return([fn |-> "plotBars_Hoang2020_PhotoDev", kind |-> "bar", table |-> barData, geneSymbol |-> geneSymbol,
              ax |-> ax, pC |-> pC, pctPlot |-> pctPlot, norm |-> FALSE],
              plotBarsBody(cfg_plotBars_Hoang2020_PhotoDev, formatBarPlot_Hoang2020_PhotoDev(geneSymbol, pctPlot), barData, ax, pC, pctPlot))

plotBars_Hoang2020_PhotoDev_withcontaminatedlarvalrods ==
  /\ pc = "idle"
  /\ \E barData \in Tables, geneSymbol \in GeneSymbols, ax \in Axes, pC \in Palettes, pctPlot \in BOOLEAN :
       Return([fn |-> "plotBars_Hoang2020_PhotoDev_withcontaminatedlarvalrods", kind |-> "bar", table |-> barData, geneSymbol |-> geneSymbol,
              ax |-> ax, pC |-> pC, pctPlot |-> pctPlot, norm |-> FALSE],
              plotBarsBody(cfg_plotBars_Hoang2020_PhotoDev_withcontaminatedlarvalrods, formatBarPlot_Hoang2020_PhotoDev(geneSymbol, pctPlot), barData, ax, pC, pctPlot))

plotBars_Xu2020_RetDev ==
  /\ pc = "idle"
  /\ \E barData \in Tables, geneSymbol \in GeneSymbols, ax \in Axes, pC \in Palettes, pctPlot \in BOOLEAN :
       Return([fn |-> "plotBars_Xu2020_RetDev", kind |-> "bar", table |-> barData, geneSymbol |-> geneSymbol,
              ax |-> ax, pC |-> pC, pctPlot |-> pctPlot, norm |-> FALSE],
              plotBarsBody(cfg_plotBars_Xu2020_RetDev, formatBarPlot_Xu2020_RetDev(geneSymbol, pctPlot), barData, ax, pC, pctPlot))

plotBars_Nerli2022 ==
  /\ pc = "idle"
  /\ \E barData \in Tables, geneSymbol \in GeneSymbols, ax \in Axes, pC \in Palettes :
       Return([fn |-> "plotBars_Nerli2022", kind |-> "bar", table |-> barData, geneSymbol |-> geneSymbol,
              ax |-> ax, pC |-> pC, pctPlot |-> FALSE, norm |-> FALSE],
              plotBarsBody(cfg_plotBars_Nerli2022, formatBarPlot_Nerli2022(geneSymbol), barData, ax, pC, FALSE))

plotBars_Yoshimatsu2020 ==
  /\ pc = "idle"
  /\ \E barData \in Tables, geneSymbol \in GeneSymbols, ax \in Axes, pC \in Palettes :
       Return([fn |-> "plotBars_Yoshimatsu2020", kind |-> "bar", table |-> barData, geneSymbol |-> geneSymbol,
              ax |-> ax, pC |-> pC, pctPlot |-> FALSE, norm |-> FALSE],
              plotBarsBody(cfg_plotBars_Yoshimatsu2020, formatBarPlot_Yoshimatsu2020(geneSymbol), barData, ax, pC, FALSE))

heatmap ==
  /\ pc = "idle"
  /\ \E heatmapData \in Tables, ax \in Axes, pC \in Palettes, norm \in BOOLEAN :
       Return([fn |-> "heatmap", kind |-> "heatmap", table |-> heatmapData, geneSymbol |-> "",
              ax |-> ax, pC |-> pC, pctPlot |-> FALSE, norm |-> norm],
              heatmapBody(cfg_heatmap, heatmapData, ax, pC, FALSE, norm))

heatmap_Ogawa2021 ==
  /\ pc = "idle"
  /\ \E heatmapData \in Tables, ax \in Axes, pC \in Palettes, pctPlot \in BOOLEAN, norm \in BOOLEAN :
       Return([fn |-> "heatmap_Ogawa2021", kind |-> "heatmap", table |-> heatmapData, geneSymbol |-> "",
              ax |-> ax, pC |-> pC, pctPlot |-> pctPlot, norm |-> norm],
              heatmapBody(cfg_heatmap_Ogawa2021, heatmapData, ax, pC, pctPlot, norm))

heatmap_Hoang2020 ==
  /\ pc = "idle"
  /\ \E heatmapData \in Tables, ax \in Axes, pC \in Palettes, pctPlot \in BOOLEAN, norm \in BOOLEAN :
       Return([fn |-> "heatmap_Hoang2020", kind |-> "heatmap", table |-> heatmapData, geneSymbol |-> "",
              ax |-> ax, pC |-> pC, pctPlot |-> pctPlot, norm |-> norm],
              heatmapBody(cfg_heatmap_Hoang2020, heatmapData, ax, pC, pctPlot, norm))

heatmap_Sun2018 ==
  /\ pc = "idle"
  /\ \E heatmapData \in Tables, ax \in Axes, pC \in Palettes, norm \in BOOLEAN :
       Return([fn |-> "heatmap_Sun2018", kind |-> "heatmap", table |-> heatmapData, geneSymbol |-> "",
              ax |-> ax, pC |-> pC, pctPlot |-> FALSE, norm |-> norm],
              heatmapBody(cfg_heatmap_Sun2018, heatmapData, ax, pC, FALSE, norm))

heatmap_Nerli2022 ==
  /\ pc = "idle"
  /\ \E heatmapData \in Tables, ax \in Axes, pC \in Palettes, norm \in BOOLEAN :
       Return([fn |-> "heatmap_Nerli2022", kind |-> "heatmap", table |-> heatmapData, geneSymbol |-> "",
              ax |-> ax, pC |-> pC, pctPlot |-> FALSE, norm |-> norm],
              heatmapBody(cfg_heatmap_Nerli2022, heatmapData, ax, pC, FALSE, norm))

heatmap_Yoshimatsu2020 ==
  /\ pc = "idle"
  /\ \E heatmapData \in Tables, ax \in Axes, pC \in Palettes, norm \in BOOLEAN :
       Return([fn |-> "heatmap_Yoshimatsu2020", kind |-> "heatmap", table |-> heatmapData, geneSymbol |-> "",
              ax |-> ax, pC |-> pC, pctPlot |-> FALSE, norm |-> norm],
              heatmapBody(cfg_heatmap_Yoshimatsu2020, heatmapData, ax, pC, FALSE, norm))

heatmap_Hoang2020_Ret ==
  /\ pc = "idle"
  /\ \E heatmapData \in Tables, ax \in Axes, pC \in Palettes, pctPlot \in BOOLEAN, norm \in BOOLEAN :
       Return([fn |-> "heatmap_Hoang2020_Ret", kind |-> "heatmap", table |-> heatmapData, geneSymbol |-> "",
              ax |-> ax, pC |-> pC, pctPlot |-> pctPlot, norm |-> norm],
              heatmapBody(cfg_heatmap_Hoang2020_Ret, heatmapData, ax, pC, pctPlot, norm))

heatmap_Hoang2020_PhotoDev ==
  /\ pc = "idle"
  /\ \E heatmapData \in Tables, ax \in Axes, pC \in Palettes, pctPlot \in BOOLEAN, norm \in BOOLEAN :
       Return([fn |-> "heatmap_Hoang2020_PhotoDev", kind |-> "heatmap", table |-> heatmapData, geneSymbol |-> "",
              ax |-> ax, pC |-> pC, pctPlot |-> pctPlot, norm |-> norm],
              heatmapBody(cfg_heatmap_Hoang2020_PhotoDev, heatmapData, ax, pC, pctPlot, norm))

heatmap_Hoang2020_PhotoDev_withcontaminatedlarvalrods ==
  /\ pc = "idle"
  /\ \E heatmapData \in Tables, ax \in Axes, pC \in Palettes, pctPlot \in BOOLEAN, norm \in BOOLEAN :
       Return([fn |-> "heatmap_Hoang2020_PhotoDev_withcontaminatedlarvalrods", kind |-> "heatmap", table |-> heatmapData, geneSymbol |-> "",
              ax |-> ax, pC |-> pC, pctPlot |-> pctPlot, norm |-> norm],
              heatmapBody(cfg_heatmap_Hoang2020_PhotoDev_withcontaminatedlarvalrods, heatmapData, ax, pC, pctPlot, norm))

heatmap_Xu2020_RetDev ==
  /\ pc = "idle"
  /\ \E heatmapData \in Tables, ax \in Axes, pC \in Palettes, pctPlot \in BOOLEAN, norm \in BOOLEAN :
       Return([fn |-> "heatmap_Xu2020_RetDev", kind |-> "heatmap", table |-> heatmapData, geneSymbol |-> "",
              ax |-> ax, pC |-> pC, pctPlot |-> pctPlot, norm |-> norm],
              heatmapBody(cfg_heatmap_Xu2020_RetDev, heatmapData, ax, pC, pctPlot, norm))

\* The caller opens a fresh figure for the next call.
NewFigure ==
  /\ pc \in {"returned", "repeated"}
  /\ pc' = "idle"
  /\ call' = NoCall
  /\ frame' = [reached |-> ""]
  /\ outcome' = "ok"
  /\ surfaces' = FreshSurfaces
  /\ gca' = FALSE
  /\ heap' = NoHeap
  /\ earlier' = NoFirst
  /\ thr' = thr

\* The caller makes the call that just ended once more: the same wrapper on the same
\* table and palette objects (as the first call left them), with the same geneSymbol,
\* pctPlot and norm, on fresh surfaces.
Repeat ==
  /\ pc = "returned"
  /\ LET c == [call EXCEPT !.table = heap.table, !.pC = heap.pC]
         r == Body(c)
         target == IF c.ax = "None" THEN "current" ELSE c.ax
     IN /\ pc' = "repeated"
        /\ call' = c
        /\ frame' = r.frame
        /\ outcome' = r.outcome
        /\ gca' = r.gca
        /\ surfaces' = [FreshSurfaces EXCEPT ![target] = r.ops]
        /\ heap' = ObjectsAfter(c)
        /\ earlier' = [outcome |-> outcome, ops |-> surfaces[target]]
        /\ thr' = thr

Next ==
  \/ plotBars
  \/ plotBars_Ogawa2021
  \/ plotBars_Hoang2020
  \/ plotBars_Sun2018
  \/ plotBars_Hoang2020_Ret
  \/ plotBars_Hoang2020_PhotoDev
  \/ plotBars_Hoang2020_PhotoDev_withcontaminatedlarvalrods
  \/ plotBars_Xu2020_RetDev
  \/ plotBars_Nerli2022
  \/ plotBars_Yoshimatsu2020
  \/ heatmap
  \/ heatmap_Ogawa2021
  \/ heatmap_Hoang2020
  \/ heatmap_Sun2018
  \/ heatmap_Nerli2022
  \/ heatmap_Yoshimatsu2020
  \/ heatmap_Hoang2020_Ret
  \/ heatmap_Hoang2020_PhotoDev
  \/ heatmap_Hoang2020_PhotoDev_withcontaminatedlarvalrods
  \/ heatmap_Xu2020_RetDev
  \/ NewFigure
  \/ Repeat

Spec == Init /\ [][Next]_vars

\* ------------------------------------------------- concurrent callers
\* Two callers, each in a thread of its own, make one chart call each.  A draw
\* operation on a surface is one step; the steps of the two calls interleave freely.
Threads == {1, 2}

\* The surface that caller t owns.
OwnAx(t) == IF t = 1 THEN "ax1" ELSE "ax2"

ConcurrentSurfaces == [s \in {"ax1", "ax2", "current"} |-> <<>>]

\* The calls caller t may make: a bar chart, a bar chart that ax.bar rejects, or a
\* heatmap, on a table and gene of its own, with or without a palette and a surface.
ConcurrentCalls(t) ==
  {[fn |-> w.fn, kind |-> w.kind, table |-> Table(16, 1, t), geneSymbol |-> GeneNames[t],
    ax |-> ax, pC |-> pC, pctPlot |-> FALSE, norm |-> FALSE] :
     w \in {[fn |-> "plotBars_Yoshimatsu2020", kind |-> "bar"],
            [fn |-> "plotBars_Sun2018", kind |-> "bar"],
            [fn |-> "heatmap_Yoshimatsu2020", kind |-> "heatmap"]},
     ax \in {"None", OwnAx(t)},
     pC \in {NonePalette, Custom(AllKeys \ {"u", "RPC", "MG336h"})}}

ReadyThread == [pc |-> "ready", call |-> NoCall, ax |-> "", gca |-> FALSE, k |-> 0, outcome |-> ""]

InitC ==
  /\ pc = "idle"
  /\ call = NoCall
  /\ frame = [reached |-> ""]
  /\ outcome = "ok"
  /\ surfaces = ConcurrentSurfaces
  /\ gca = FALSE
  /\ heap = NoHeap
  /\ earlier = NoFirst
  /\ thr = [t \in Threads |-> ReadyThread]

\* Mutant of SurfaceOf: the wrapper draws on plt.gca() whatever ax it was given.
SurfaceOf_AlwaysCurrent(ax) == "current"

\* "if not ax: ax = plt.gca()": the surface a call draws on.
SurfaceOf(ax) == IF ax = "None" THEN "current" ELSE ax

\* Caller t enters a wrapper, which runs up to its "if not ax" line: the slice is taken
\* and the palette is read, and either may raise.
CallC(t) ==
  /\ thr[t].pc = "ready"
  /\ \E c \in ConcurrentCalls(t) :
       LET r == Body(c) IN
       thr' = [thr EXCEPT ![t] =
                 IF r.outcome \in {"IndexError", "KeyError"}
                 THEN [@ EXCEPT !.pc = "done", !.call = c, !.outcome = r.outcome]
                 ELSE [@ EXCEPT !.pc = "resolved", !.call = c]]
  /\ UNCHANGED <<pc, call, frame, outcome, surfaces, gca, heap, earlier>>

\* "if not ax: ax = plt.gca()": only a call without a surface reads the ambient one.
Acquire(t) ==
  /\ thr[t].pc = "resolved"
  /\ thr' = [thr EXCEPT ![t] = [@ EXCEPT !.pc = "drawing", !.ax = SurfaceOf(thr[t].call.ax),
                                          !.gca = (thr[t].call.ax = "None")]]
  /\ UNCHANGED <<pc, call, frame, outcome, surfaces, gca, heap, earlier>>

\* ax.bar(n, h, ...) raises on shapes that do not broadcast, before it draws.
Raise(t) ==
  /\ thr[t].pc = "drawing"
  /\ Body(thr[t].call).outcome = "ValueError"
  /\ thr' = [thr EXCEPT ![t] = [@ EXCEPT !.pc = "done", !.outcome = "ValueError"]]
  /\ UNCHANGED <<pc, call, frame, outcome, surfaces, gca, heap, earlier>>

\* The next draw operation of caller t's call, on the surface the call holds.
Draw(t) ==
  /\ thr[t].pc = "drawing"
  /\ LET r == Body(thr[t].call) IN
     /\ r.outcome = "ok"
     /\ thr[t].k < Len(r.ops)
     /\ (\E u \in Threads \ {t} : thr[u].ax = thr[t].ax) => Len(surfaces[thr[t].ax]) < MaxShared
     /\ surfaces' = [surfaces EXCEPT ![thr[t].ax] = Append(@, r.ops[thr[t].k + 1])]
     /\ thr' = [thr EXCEPT ![t] = [@ EXCEPT !.k = @ + 1]]
  /\ UNCHANGED <<pc, call, frame, outcome, gca, heap, earlier>>

\* The wrapper returns after its last draw operation.
ReturnC(t) ==
  /\ thr[t].pc = "drawing"
  /\ LET r == Body(thr[t].call) IN r.outcome = "ok" /\ thr[t].k = Len(r.ops)
  /\ thr' = [thr EXCEPT ![t] = [@ EXCEPT !.pc = "done", !.outcome = "ok"]]
  /\ UNCHANGED <<pc, call, frame, outcome, surfaces, gca, heap, earlier>>

NextC == \E t \in Threads : CallC(t) \/ Acquire(t) \/ Raise(t) \/ Draw(t) \/ ReturnC(t)

SpecC == InitC /\ [][NextC]_vars

\* ==================================================================== claims
\* The surface the call drew on, and its draw operations.
Target == IF call.ax = "None" THEN "current" ELSE call.ax
Ops == surfaces[Target]

\* Nothing was drawn on any surface.
NothingDrawn == surfaces = FreshSurfaces

\* The operations of Ops whose op field is name, in order.
OpsNamed(name) == SelectSeq(Ops, LAMBDA o : o.op = name)

SeqSum(s) == Sum(s, 1, Len(s))

\* A heatmap wrapper handed its block to heatmap_general.
HeatmapReached == pc = "returned" /\ call.kind = "heatmap" /\ frame.reached = "heatmap_general"

\* A bar wrapper reached its ax.bar call.
BarReached == pc = "returned" /\ call.kind = "bar" /\ frame.reached = "bar"

\* C1: in every heatmap wrapper, on a table at least as wide as the end of the column
\* slice, the group sizes groupsN sum to the number of columns of the block handed to
\* heatmap_general, and groupsN, groupsColors and groupsLabels have the same length.
C1_GroupsCoverColumns ==
  (HeatmapReached /\ call.table.ncols >= frame.c_end) =>
     /\ SeqSum(frame.groupsN) = frame.data.shape[2]
     /\ Len(frame.groupsN) = Len(frame.groupsColors)
     /\ Len(frame.groupsN) = Len(frame.groupsLabels)

\* C2: in every bar wrapper, on a row at least as wide as the end of the slice, the bar
\* positions n, the sliced values h and the colors barColors have the same length when
\* ax.bar is reached.
C2_BarLengthsAgree ==
  (BarReached /\ call.table.ncols >= frame.h_end) =>
     /\ Len(frame.n) = Len(frame.h)
     /\ Len(frame.n) = Len(frame.barColors)

\* The image drawn by the call (the argument of its imshow).
Image == OpsNamed("imshow")[1]

\* The number of table columns inside the slice of a heatmap call.
SlicedColumns ==
  IF call.table.ncols >= frame.c_end THEN frame.c_end - frame.c_start
  ELSE IF call.table.ncols > frame.c_start THEN call.table.ncols - frame.c_start ELSE 0

\* A heatmap wrapper was called with a table of zero rows whose slice has N >= 1 columns.
EmptyHeatmap == HeatmapReached /\ Len(call.table.values) = 0 /\ SlicedColumns >= 1

\* C3: a heatmap of an empty row set (zero rows, N sliced columns) does not fail and
\* draws a 2 x N block of ones whose two row labels are "not found"; no image, y-tick,
\* gridline or boundary bar is ever drawn for a block of zero rows.
C3_EmptyInputPlaceholder ==
  /\ EmptyHeatmap =>
       /\ outcome = "ok"
       /\ Len(OpsNamed("imshow")) = 1
       /\ Image.shape = <<2, SlicedColumns>>
       /\ Len(Image.data) = 2
       /\ \A r \in 1..2 :
            /\ Len(Image.data[r]) = SlicedColumns
            /\ \A j \in 1..SlicedColumns : Image.data[r][j] = <<"num", 1, 1>>
       /\ OpsNamed("set_yticklabels")[1].labels = <<"not found", "not found">>
       /\ OpsNamed("set_yticks")[1].ticks = <<0, 10>>
       /\ [i \in 1..3 |-> OpsNamed("axhline")[i].y] = <<-5, 5, 15>>
       /\ Len(OpsNamed("axhline")) = 3
       /\ \A i \in DOMAIN Ops : Ops[i].op = "plot" => Ops[i].y \in {<<-5, -5>>, <<15, 15>>}
  /\ \A s \in DOMAIN surfaces : \A i \in DOMAIN surfaces[s] :
       LET o == surfaces[s][i] IN
         /\ o.op = "imshow" => (o.shape[1] >= 1 /\ Len(o.data) = o.shape[1])
         /\ o.op = "set_yticks" => Len(o.ticks) >= 1
         /\ o.op = "set_yticklabels" => Len(o.labels) >= 1

\* C3's case: a normalized heatmap of a table without rows was drawn.
C3_Witness ==
  /\ EmptyHeatmap /\ call.norm /\ outcome = "ok"
  /\ call.table.ncols >= frame.c_end
  /\ Len(OpsNamed("imshow")) = 1

\* C4: with norm=True every non-placeholder row with a nonzero value in the slice is
\* divided by its own row maximum: each drawn value is value/rowmax, and the maximum of
\* the drawn row equals 1.
C4_RowMaxIsOne ==
  (HeatmapReached /\ call.norm) =>
     \A r \in DOMAIN call.table.values :
        LET x == call.table.values[r]
            lo == frame.c_start
            cols == (lo + 1)..(lo + SlicedColumns)
            y == Image.data[r]
        IN (\E c \in cols : x[c] # 0) =>
             \E m \in cols :
                /\ \A c \in cols : x[c] <= x[m]
                /\ Len(y) = SlicedColumns
                /\ \A c \in cols : /\ y[c - lo][1] = "num"
                                   /\ y[c - lo][2] * x[m] = x[c] * y[c - lo][3]
                                   /\ y[c - lo][2] <= y[c - lo][3]
                /\ y[m - lo] = <<"num", 1, 1>>

\* C4's case: a normalized heatmap of two rows with different nonzero maxima was drawn
\* from a table that holds the whole slice.
C4_Witness ==
  /\ HeatmapReached /\ call.norm /\ outcome = "ok"
  /\ call.table.ncols >= frame.c_end
  /\ Len(call.table.values) = 2
  /\ call.table.values[1][1] # 0 /\ call.table.values[2][1] # 0
  /\ call.table.values[1][1] # call.table.values[2][1]
  /\ Len(Image.data) = 2

\* C5: with norm=True every value of every normalized row handed to the renderer lies
\* in [0,1], a row of zeros included.
C5_NormalizedInUnitInterval ==
  (HeatmapReached /\ call.norm) =>
     \A r \in DOMAIN frame.data.rows : \A j \in DOMAIN frame.data.rows[r] :
        LET v == frame.data.rows[r][j] IN v[1] = "num" /\ 0 <= v[2] /\ v[2] <= v[3]

\* The palette keys the called wrapper subscripts pC with.
RefKeys ==
  LET keys == IF call.kind = "bar" THEN CfgOf(call.fn).barColors
              ELSE CfgOf(call.fn).groupsColors
  IN {keys[i] : i \in DOMAIN keys}

\* The caller passed a palette (any dict, an empty one included) that lacks a key the
\* dataset references.
SuppliedPaletteLacksKey == call.pC.given /\ ~(RefKeys \subseteq DOMAIN call.pC.map)

\* The end of the column range the call asks for.
SliceEnd == IF call.kind = "bar" THEN frame.h_end ELSE frame.c_end

\* The call was made on a table that holds the whole column range and got as far as
\* reading the palette: a bar wrapper needs a row 0 for that.
PaletteRead ==
  /\ pc = "returned"
  /\ call.table.ncols >= SliceEnd
  /\ call.kind = "bar" => Len(call.table.values) >= 1

\* C6: a caller-supplied palette lacking a referenced key makes the call fail with a
\* missing-key error, before any draw operation and before the current surface is
\* acquired.
C6_MissingKeyFailsBeforeDrawing ==
  (PaletteRead /\ SuppliedPaletteLacksKey) =>
     (outcome = "KeyError" /\ NothingDrawn /\ ~gca)

\* The colors the call resolved are those of the wrapper's built-in palette.
UsedDefaultPalette ==
  /\ frame.reached \in {"bar", "heatmap_general"}
  /\ LET cfg == CfgOf(call.fn)
         keys == IF call.kind = "bar" THEN cfg.barColors ELSE cfg.groupsColors
         colors == IF call.kind = "bar" THEN frame.barColors ELSE frame.groupsColors
     IN colors = [i \in DOMAIN keys |-> cfg.pC[keys[i]]]

\* C7: the built-in palette is used only when the caller supplies no palette; every
\* supplied palette (an empty mapping included) lacking a referenced key fails with a
\* missing-key error instead of being replaced by the default.
C7_DefaultOnlyWithoutPalette ==
  PaletteRead =>
     /\ UsedDefaultPalette => ~call.pC.given
     /\ SuppliedPaletteLacksKey => (outcome = "KeyError" /\ ~UsedDefaultPalette)

\* C8: a table with fewer columns than the end of the required column range makes every
\* wrapper fail with an out-of-range error before any draw operation.
C8_NarrowTableFails ==
  (pc = "returned" /\ call.table.ncols < SliceEnd /\ outcome # "KeyError") =>
     (outcome = "IndexError" /\ NothingDrawn)

\* The palette the call resolves colors with, read off the call's arguments.
EffectivePalette(cfg) ==
  IF call.pC.given /\ DOMAIN call.pC.map # {} THEN call.pC.map ELSE cfg.pC

\* plotBars was called on a table with a row 0 that holds columns 7..36 and with a
\* palette that has the five keys.
C9_Case ==
  /\ pc = "returned" /\ call.fn = "plotBars"
  /\ Len(call.table.values) >= 1 /\ call.table.ncols >= 37
  /\ {"r", "u", "s", "m", "l"} \subseteq DOMAIN EffectivePalette(cfg_plotBars)

C10_Start == IF call.pctPlot THEN 11 ELSE 2

\* An Ogawa2021 wrapper was called on a table with at least one row that holds the
\* eight columns from C10_Start on, with a palette that has every key it references.
C10_Case ==
  /\ pc = "returned" /\ call.fn \in {"plotBars_Ogawa2021", "heatmap_Ogawa2021"}
  /\ Len(call.table.values) >= 1 /\ call.table.ncols >= C10_Start + 8
  /\ RefKeys \subseteq DOMAIN EffectivePalette(CfgOf(call.fn))

BarDrawn == BarReached /\ outcome = "ok"
BarOp == OpsNamed("bar")[1]
XTicks == OpsNamed("set_xticks")[1].ticks
XTickLabels == OpsNamed("set_xticklabels")[1].labels

\* The cell-type groups of the drawn bars: where the positions leave gaps, a group is
\* a maximal run of bars one unit apart; where all bars are one unit apart, every bar
\* is a group of its own.  A group is named by the index of its first bar.
BarsHaveGaps == \E i \in 2..Len(BarOp.x) : BarOp.x[i] - BarOp.x[i - 1] # Tenths(1, 0)
GroupStarts ==
  IF BarsHaveGaps
  THEN {i \in 1..Len(BarOp.x) : i = 1 \/ BarOp.x[i] - BarOp.x[i - 1] # Tenths(1, 0)}
  ELSE 1..Len(BarOp.x)
GroupEnd(s) ==
  CHOOSE e \in s..Len(BarOp.x) :
    /\ \A j \in (s + 1)..e : j \notin GroupStarts
    /\ (e = Len(BarOp.x) \/ (e + 1) \in GroupStarts)
GroupIndex(s) == Cardinality({t \in GroupStarts : t <= s})

\* C11: after a bar wrapper drew its bars, the x-axis has exactly one tick and one tick
\* label per group of drawn bars, and the tick of each group is the midpoint of the
\* positions of the group's first and last bar.
C11_OneTickPerGroup ==
  BarDrawn =>
    /\ Len(XTicks) = Cardinality(GroupStarts)
    /\ Len(XTickLabels) = Len(XTicks)
    /\ \A s \in GroupStarts : 2 * XTicks[GroupIndex(s)] = BarOp.x[s] + BarOp.x[GroupEnd(s)]

\* ----------------------------------------------------------------------- C12
\* The second of two identical calls of a bar wrapper has ended.
BarRepeated == pc = "repeated" /\ call.kind = "bar"

Started == {t \in Threads : thr[t].pc # "ready"}
OpsOf(t) == Body(thr[t].call).ops
DrawnBy(t) == SubSeq(OpsOf(t), 1, thr[t].k)

\* s is an interleaving of a and b that keeps the order of each.
RECURSIVE IsMerge(_, _, _)
IsMerge(s, a, b) ==
  IF s = <<>> THEN a = <<>> /\ b = <<>>
  ELSE \/ (a # <<>> /\ a[1] = s[1] /\ IsMerge(Tail(s), Tail(a), b))
       \/ (b # <<>> /\ b[1] = s[1] /\ IsMerge(Tail(s), a, Tail(b)))

\* C14: under every interleaving of two concurrent chart calls, (1) a call reads the
\* ambient current surface only if it was passed no surface; (2) when both callers pass
\* a surface of their own, each surface holds exactly the draw operations its own call
\* has performed, in the call's order - all of them once the call has returned - and
\* nothing is drawn on the ambient surface; (3) when both pass no surface, both draw on
\* the ambient surface, which holds an interleaving of the two calls' operations.
C14_OwnSurfacesIsolated ==
  /\ \A t \in Started : thr[t].gca => thr[t].call.ax = "None"
  /\ (Started = Threads /\ \A t \in Threads : thr[t].call.ax = OwnAx(t)) =>
       /\ \A t \in Threads :
            /\ surfaces[OwnAx(t)] = DrawnBy(t)
            /\ ~thr[t].gca
            /\ (thr[t].pc = "done" /\ thr[t].outcome = "ok") => surfaces[OwnAx(t)] = OpsOf(t)
       /\ surfaces["current"] = <<>>
  /\ (Started = Threads /\ \A t \in Threads : thr[t].call.ax = "None") =>
       /\ surfaces["ax1"] = <<>> /\ surfaces["ax2"] = <<>>
       /\ IsMerge(surfaces["current"], DrawnBy(1), DrawnBy(2))

\* C14's case: two callers, a bar chart and a heatmap, each on a surface of its own,
\* have both returned after their draw operations were interleaved.
C14_Witness ==
  /\ \A t \in Threads : thr[t].pc = "done" /\ thr[t].outcome = "ok" /\ thr[t].call.ax = OwnAx(t)
  /\ thr[1].call.kind = "bar" /\ thr[2].call.kind = "heatmap"
  /\ Len(surfaces["ax1"]) = 5 /\ Len(surfaces["ax2"]) > 20
  /\ surfaces["ax1"] # surfaces["ax2"]

\* Two callers without a surface have interleaved their draws on the ambient surface.
C14_SharedInterleaved ==
  /\ \A t \in Threads : thr[t].call.ax = "None" /\ thr[t].gca /\ thr[t].k >= 2
  /\ surfaces["current"][1] = OpsOf(1)[1]
  /\ surfaces["current"][2] = OpsOf(2)[1]
  /\ surfaces["current"][3] = OpsOf(1)[2]
  /\ surfaces["current"][4] = OpsOf(2)[2]

\* ----------------------------------------------------------------------- C15
\* The colorbar label of the heatmap that was drawn, and the label the same wrapper
\* gives the same call with norm=False.
ColorbarLabel == OpsNamed("colorbar")[1].label
UnitLabel == Body([call EXCEPT !.norm = FALSE]).frame.cbarlabel

\* C15: the colorbar of a heatmap drawn with norm=True is labelled "norm. " followed by
\* the label the same wrapper, with the same pctPlot, uses with norm=False.
C15_NormLabelIsPrefixedUnit ==
  (HeatmapReached /\ call.norm) => ColorbarLabel = "norm. " \o UnitLabel

\* ----------------------------------------------------------------------- C16
\* A bar wrapper was called on a table that has a row and holds the wrapper's column
\* range, with no palette or with one that has every key the wrapper reads.
ValidBarCall ==
  /\ pc = "returned" /\ call.kind = "bar"
  /\ Len(call.table.values) >= 1 /\ call.table.ncols >= frame.h_end
  /\ ~SuppliedPaletteLacksKey

\* The y-axis label and the title of the surface after the call: what the last
\* set_ylabel and the last set_title operation set ("" when there was none).
YLabel == LET l == OpsNamed("set_ylabel") IN IF l = <<>> THEN "" ELSE l[Len(l)].label
Title == LET l == OpsNamed("set_title") IN IF l = <<>> THEN "" ELSE l[Len(l)].label

\* The fixed unit of the bar wrappers without a pctPlot option.
FixedUnit ==
  CASE call.fn = "plotBars" -> "FPKM"
    [] call.fn \in {"plotBars_Sun2018", "plotBars_Yoshimatsu2020"} -> "cpm"
    [] call.fn = "plotBars_Nerli2022" -> "counts (norm.)"

\* C16: after a bar wrapper was called on valid inputs the y-axis label is
\* '% expressing' if the wrapper has a pctPlot option and pctPlot is true, 'avg. counts'
\* if it has the option and pctPlot is false, and the dataset's fixed unit if it has no
\* such option; the title is the geneSymbol argument.
C16_YLabelAndTitle ==
  ValidBarCall =>
    /\ YLabel = (IF CfgOf(call.fn).hasPct
                 THEN (IF call.pctPlot THEN "% expressing" ELSE "avg. counts")
                 ELSE FixedUnit)
    /\ Title = call.geneSymbol

\* ----------------------------------------------------------------------- C17
\* The boundary bars of the heatmap that was drawn, in drawing order: the bar above and
\* the bar below the image of group 1, then those of group 2, and so on.
BoundaryBars == OpsNamed("plot")
ImageRows == Image.shape[1]
ImageCols == Image.shape[2]

\* C17: heatmap_general draws, for group i of sizes groupsN with prefix sums c, one bar
\* at y = -0.5 and one at y = rows - 0.5, both in groupsColors[i] and both from
\* x = c(i) - 0.5 to x = c(i+1) - 0.5; the bars follow one another without gap or overlap
\* in group order, start at the left edge of the image and end at its right edge.
\* Stated for the heatmaps of tables that hold the wrapper's whole column range.
C17_BoundaryBarsCoverImage ==
  (HeatmapReached /\ call.table.ncols >= frame.c_end) =>
    LET G == Len(frame.groupsN)
        c == [i \in 0..G |-> SeqSum(SubSeq(frame.groupsN, 1, i))]
    IN /\ Len(BoundaryBars) = 2 * G
       /\ \A i \in 1..G :
            LET above == BoundaryBars[2 * i - 1]
                below == BoundaryBars[2 * i]
            IN /\ above.y = <<-5, -5>>
               /\ below.y = <<Tenths(ImageRows, 0) - 5, Tenths(ImageRows, 0) - 5>>
               /\ above.color = frame.groupsColors[i] /\ below.color = frame.groupsColors[i]
               /\ above.x = <<Tenths(c[i - 1], 0) - 5, Tenths(c[i], 0) - 5>>
               /\ below.x = above.x
               /\ above.x[1] < above.x[2]
               /\ i > 1 => above.x[1] = BoundaryBars[2 * i - 3].x[2]
       /\ BoundaryBars[1].x[1] = -5
       /\ BoundaryBars[2 * G].x[2] = Tenths(ImageCols, 0) - 5

\* ----------------------------------------------------------------------- C18
\* The y-tick labels of the heatmap that was drawn.
YTickLabels == OpsNamed("set_yticklabels")[1].labels

\* The value of input row i in the j-th column of the slice, and the largest value of
\* input row i in the slice.
Sliced(i, j) == call.table.values[i][frame.c_start + j]
SlicedMax(i) ==
  CHOOSE m \in {Sliced(i, j) : j \in 1..SlicedColumns} :
    \A j \in 1..SlicedColumns : Sliced(i, j) <= m

\* C18: a heatmap of R >= 1 input rows shows an image of exactly R rows; image row i
\* holds the values of input row i in the sliced columns, in column order, each divided
\* by the row's largest sliced value if norm is true; y-tick label i is the symbol of
\* input row i.  In every heatmap, the placeholder included, there are as many y-tick
\* labels as image rows.
C18_RowsAndLabels ==
  HeatmapReached =>
    /\ Len(YTickLabels) = ImageRows
    /\ Len(Image.data) = ImageRows
    /\ Len(call.table.values) >= 1 =>
         /\ ImageRows = Len(call.table.values)
         /\ ImageCols = SlicedColumns
         /\ \A i \in 1..ImageRows :
              LET row == Image.data[i]
                  max == IF call.norm /\ SlicedColumns >= 1 THEN SlicedMax(i) ELSE 0
              IN /\ YTickLabels[i] = call.table.symbol[i]
                 /\ Len(row) = SlicedColumns
                 /\ \A j \in 1..SlicedColumns :
                      row[j] = (IF call.norm THEN TrueDiv(Sliced(i, j), max)
                                ELSE Float(Sliced(i, j)))

\* C18's case: a heatmap of two rows with different values and different symbols, on a
\* table that holds the whole column range.
C18_Witness ==
  /\ HeatmapReached /\ outcome = "ok"
  /\ Len(call.table.values) = 2 /\ call.table.ncols >= frame.c_end
  /\ ImageRows = 2 /\ Image.data[1] # Image.data[2]
  /\ YTickLabels = <<"rho", "opn1sw1">>

\* ----------------------------------------------------------------------- C19
\* The group labels of the heatmap that was drawn, in drawing order.
GroupTexts == OpsNamed("text")

\* C19: heatmap_general draws one text per group: label i is groupsLabels[i] in
\* groupsColors[i], the color of the group's boundary bars, at x = (c(i) + c(i+1))/2 - 0.5
\* and y = -1.0 for the prefix sums c of groupsN; it is centered on x if groupRotation
\* is 0 and otherwise left-aligned at x and rotated by groupRotation.
C19_GroupLabels ==
  HeatmapReached =>
    LET G == Len(frame.groupsN)
        rot == CfgOf(call.fn).groupRotation
    IN /\ Len(GroupTexts) = G
       /\ \A i \in 1..G :
            LET t == GroupTexts[i]
                lo == SeqSum(SubSeq(frame.groupsN, 1, i - 1))
                hi == lo + frame.groupsN[i]
            IN /\ t.s = frame.groupsLabels[i]
               /\ t.color = frame.groupsColors[i]
               /\ t.color = BoundaryBars[2 * i - 1].color
               /\ t.color = BoundaryBars[2 * i].color
               /\ 2 * t.x = Tenths(lo, 0) + Tenths(hi, 0) - 10
               /\ t.y = -10
               /\ t.rotation = rot
               /\ (t.ha = "center") <=> (rot = 0)
               /\ (rot # 0) => t.ha = "left"

\* C19's case: a heatmap with rotated, left-aligned group labels in the caller's colors.
C19_Witness ==
  /\ HeatmapReached /\ outcome = "ok"
  /\ CfgOf(call.fn).groupRotation = 45
  /\ call.pC.given /\ DOMAIN call.pC.map # {}
  /\ Len(GroupTexts) >= 7
  /\ GroupTexts[2].ha = "left" /\ GroupTexts[2].x > 0

\* ----------------------------------------------------------------------- C20
\* The positions in Ops of the image, of the black gridlines and of the group boundary
\* annotations (white separators, boundary bars, group labels).
ImageAt == {i \in DOMAIN Ops : Ops[i].op = "imshow"}
GridlinesAt == {i \in DOMAIN Ops : Ops[i].op \in {"axhline", "axvline"} /\ Ops[i].color = "black"}
AnnotationsAt ==
  {i \in DOMAIN Ops : \/ Ops[i].op \in {"plot", "text"}
                      \/ (Ops[i].op = "axvline" /\ Ops[i].color = "white")}
BlackRows == SelectSeq(Ops, LAMBDA o : o.op = "axhline" /\ o.color = "black")
BlackCols == SelectSeq(Ops, LAMBDA o : o.op = "axvline" /\ o.color = "black")

\* C20: for the drawn block of R rows and C columns heatmap_general draws black
\* horizontal lines at y = -0.5, 0.5, ..., R - 0.5 (R + 1 of them) and black vertical
\* lines at x = -0.5, 0.5, ..., C - 0.5 (C + 1 of them), all of them after the image and
\* before the first group boundary annotation.
C20_Gridlines ==
  HeatmapReached =>
    /\ BlackRows = [i \in 1..(ImageRows + 1) |->
                      [op |-> "axhline", y |-> Tenths(i - 1, 0) - 5, color |-> "black"]]
    /\ BlackCols = [j \in 1..(ImageCols + 1) |->
                      [op |-> "axvline", x |-> Tenths(j - 1, 0) - 5, color |-> "black"]]
    /\ \A r \in 1..(ImageRows - 1) : \E i \in GridlinesAt :
         Ops[i].op = "axhline" /\ Ops[i].y = Tenths(r, 0) - 5
    /\ \A c \in 1..(ImageCols - 1) : \E i \in GridlinesAt :
         Ops[i].op = "axvline" /\ Ops[i].x = Tenths(c, 0) - 5
    /\ \A g \in GridlinesAt :
         /\ \A i \in ImageAt : i < g
         /\ \A a \in AnnotationsAt : g < a

\* C20's case: a heatmap of two rows on a table that holds the column range: three
\* horizontal gridlines, and annotations after them.
C20_Witness ==
  /\ HeatmapReached /\ outcome = "ok"
  /\ Len(call.table.values) = 2 /\ call.table.ncols >= frame.c_end
  /\ Len(BlackRows) = 3 /\ Len(BlackCols) = ImageCols + 1 /\ ImageCols >= 8
  /\ AnnotationsAt # {} /\ GridlinesAt # {}

\* ----------------------------------------------------------------------- C21
\* The heatmap wrapper of the dataset of a bar wrapper.
HeatmapOf(fn) ==
  CASE fn = "plotBars" -> "heatmap"
    [] fn = "plotBars_Ogawa2021" -> "heatmap_Ogawa2021"
    [] fn = "plotBars_Hoang2020" -> "heatmap_Hoang2020"
    [] fn = "plotBars_Sun2018" -> "heatmap_Sun2018"
    [] fn = "plotBars_Hoang2020_Ret" -> "heatmap_Hoang2020_Ret"
    [] fn = "plotBars_Hoang2020_PhotoDev" -> "heatmap_Hoang2020_PhotoDev"
    [] fn = "plotBars_Hoang2020_PhotoDev_withcontaminatedlarvalrods" -> "heatmap_Hoang2020_PhotoDev_withcontaminatedlarvalrods"
    [] fn = "plotBars_Xu2020_RetDev" -> "heatmap_Xu2020_RetDev"
    [] fn = "plotBars_Nerli2022" -> "heatmap_Nerli2022"
    [] fn = "plotBars_Yoshimatsu2020" -> "heatmap_Yoshimatsu2020"

\* The locals of the dataset's heatmap wrapper when it is called, without
\* normalization, on the table, palette and pctPlot of the bar call that ended.
HeatmapFrame ==
  Body([call EXCEPT !.fn = HeatmapOf(call.fn), !.kind = "heatmap", !.norm = FALSE]).frame

\* A bar wrapper took its slice of row 0.
BarSliced == pc = "returned" /\ call.kind = "bar" /\ Len(call.table.values) >= 1

\* C21: the bar wrapper and the heatmap wrapper of a dataset read the same column range
\* for the same pctPlot, so the bar heights of a gene are the values of its heatmap row.
C21_SameColumnRange ==
  BarSliced =>
    /\ frame.h_start = HeatmapFrame.c_start
    /\ frame.h_end = HeatmapFrame.c_end
    /\ frame.h = HeatmapFrame.data.rows[1]

\* ----------------------------------------------------------------------- C22
\* The built-in palettes of the bar wrapper called and of its dataset's heatmap wrapper.
BarDefault == CfgOf(call.fn).pC
HeatmapDefault == CfgOf(HeatmapOf(call.fn)).pC

\* A bar wrapper was called without a palette and drew its chart.
BarDrawnInDefaultColors == BarDrawn /\ ~call.pC.given

\* C22: the built-in palettes of the bar wrapper and of the heatmap wrapper of a dataset
\* give every group key the same color; so, without a caller's palette, a bar whose key
\* is k has the color of the heatmap boundary bars of the group whose key is k.
C22_SameDefaultColors ==
  BarDrawnInDefaultColors =>
    /\ \A k \in DOMAIN BarDefault \cap DOMAIN HeatmapDefault : BarDefault[k] = HeatmapDefault[k]
    /\ LET barKeys == CfgOf(call.fn).barColors
           groupKeys == CfgOf(HeatmapOf(call.fn)).groupsColors
       IN \A i \in DOMAIN barKeys : \A j \in DOMAIN groupKeys :
            barKeys[i] = groupKeys[j] =>
              frame.barColors[i] = HeatmapFrame.groupsColors[j]

\* ----------------------------------------------------------------------- C23
\* The slice bounds <<start, end>> (end exclusive) a wrapper computes for the call c.
RangeOf(c) ==
  LET f == Body(c).frame
  IN IF c.kind = "bar" THEN <<f.h_start, f.h_end>> ELSE <<f.c_start, f.c_end>>

\* A wrapper with a pctPlot option has returned.
PctWrapperReturned == pc = "returned" /\ CfgOf(call.fn).hasPct

\* The bounds of the call made and of the same call with the other value of pctPlot.
ThisRange ==
  IF call.kind = "bar" THEN <<frame.h_start, frame.h_end>> ELSE <<frame.c_start, frame.c_end>>
OtherRange == RangeOf([call EXCEPT !.pctPlot = ~call.pctPlot])
CountsRange == IF call.pctPlot THEN OtherRange ELSE ThisRange
PercentRange == IF call.pctPlot THEN ThisRange ELSE OtherRange

\* The columns of the table of the call that a slice with the bounds rng reads.
ColumnsRead(rng) == {j \in rng[1]..(rng[2] - 1) : j < call.table.ncols}

\* The number of values per row the call and its pctPlot counterpart sliced.
ValuesRead(c) ==
  LET f == Body(c).frame
  IN IF c.kind = "bar" THEN Len(f.h) ELSE f.data.shape[2]

\* C23: for a wrapper with a pctPlot option the percent range is as wide as the count
\* range, starts strictly after its end and shares no column with it; on a table that
\* holds both ranges the two calls read the same number of values per row.
C23_PercentRangeApart ==
  PctWrapperReturned =>
    /\ PercentRange[2] - PercentRange[1] = CountsRange[2] - CountsRange[1]
    /\ PercentRange[1] > CountsRange[2]
    /\ ColumnsRead(PercentRange) \cap ColumnsRead(CountsRange) = {}
    /\ (call.table.ncols >= PercentRange[2] /\ Len(call.table.values) >= 1) =>
         /\ Cardinality(ColumnsRead(PercentRange)) = Cardinality(ColumnsRead(CountsRange))
         /\ ValuesRead([call EXCEPT !.pctPlot = TRUE]) = ValuesRead([call EXCEPT !.pctPlot = FALSE])

\* heatmap_Xu2020_RetDev, whose percent range 83:163 is the closest to its count range
\* 2:82, has drawn the percent columns of a table that holds both ranges.
C23_Witness ==
  /\ PctWrapperReturned /\ HeatmapReached
  /\ call.fn = "heatmap_Xu2020_RetDev" /\ call.pctPlot
  /\ call.table.ncols >= PercentRange[2]
  /\ frame.data.shape[1] >= 1
  /\ ColumnsRead(PercentRange) # {} /\ ColumnsRead(CountsRange) # {}

\* ----------------------------------------------------------------------- C24
\* A bar wrapper has returned; frame.n holds the positions it built, whatever the outcome.
BarReturned == pc = "returned" /\ call.kind = "bar"
Positions == frame.n

\* The x ticks the formatter of the wrapper sets: one per cell-type group.
GroupTicks ==
  SelectSeq(FormatOf(call.fn, call.geneSymbol, call.pctPlot), LAMBDA o : o.op = "set_xticks")[1].ticks

\* Bars i and i+1 of the positions n are in the same group: both are nearest to the same
\* tick, that is, no midpoint of two neighbouring ticks lies between them.
SameGroup(n, ticks, i) ==
  ~\E k \in 1..(Len(ticks) - 1) :
     /\ 2 * n[i] < ticks[k] + ticks[k + 1]
     /\ ticks[k] + ticks[k + 1] <= 2 * n[i + 1]

\* The bars that are the last of a group of several bars which another group follows.
MultiGroupEnds(n, ticks) ==
  {i \in 2..(Len(n) - 1) : SameGroup(n, ticks, i - 1) /\ ~SameGroup(n, ticks, i)}

\* C24: the bar positions are strictly increasing, neighbours are at least 1 apart, the
\* bars drawn are 0.8 wide at these positions and do not overlap, and the gap after a
\* group of several bars is strictly larger than every gap inside a group.
C24_BarsApart ==
  BarReturned =>
    LET n == Positions
        ticks == GroupTicks
    IN /\ \A i \in 1..(Len(n) - 1) : n[i] < n[i + 1] /\ n[i + 1] - n[i] >= Tenths(1, 0)
       /\ BarDrawn =>
            LET b == BarOp
            IN /\ b.x = n
               /\ b.width = Tenths(0, 8)
               /\ \A i \in 1..(Len(b.x) - 1) :
                    /\ b.x[i + 1] - b.x[i] > b.width
                    /\ 2 * b.x[i] + b.width < 2 * b.x[i + 1] - b.width
       /\ \A i \in MultiGroupEnds(n, ticks) :
            \A j \in 1..(Len(n) - 1) :
              SameGroup(n, ticks, j) => n[i + 1] - n[i] > n[j + 1] - n[j]

\* plotBars_Nerli2022 has drawn its four groups of five bars: the gap after a group is
\* 1.5 and the gaps inside the groups are 1.
C24_Witness ==
  /\ BarDrawn /\ call.fn = "plotBars_Nerli2022"
  /\ Len(BarOp.x) = 20
  /\ MultiGroupEnds(Positions, GroupTicks) = {5, 10, 15}
  /\ \A e \in {5, 10, 15} : Positions[e + 1] - Positions[e] = Tenths(1, 5)
  /\ \E j \in 1..19 : SameGroup(Positions, GroupTicks, j) /\ Positions[j + 1] - Positions[j] = Tenths(1, 0)

\* ----------------------------------------------------------------------- C25
\* A bar wrapper was called with a table of zero rows.
EmptyBarCall == BarReturned /\ Len(call.table.values) = 0

\* C25: a bar wrapper called with a table of zero rows fails with an index error at the
\* read of row 0: no palette is resolved (a palette lacking a key does not make it a
\* missing-key error), the current surface is not acquired, and nothing is drawn, in
\* particular no placeholder chart; only a heatmap of zero rows draws the placeholder.
C25_EmptyBarCallFails ==
  /\ EmptyBarCall =>
       /\ outcome = "IndexError"
       /\ frame.reached = "iloc"
       /\ frame.h = <<>> /\ frame.barColors = <<>>
       /\ ~gca
       /\ NothingDrawn
  /\ pc = "returned" =>
       \A s \in DOMAIN surfaces : \A i \in DOMAIN surfaces[s] :
         (surfaces[s][i].op = "set_yticklabels"
            /\ surfaces[s][i].labels = <<"not found", "not found">>)
           => (call.kind = "heatmap" /\ Len(call.table.values) = 0)

\* A bar wrapper was called without an axes on a table of zero rows, with a palette that
\* lacks a key the wrapper uses, and failed with the index error.
C25_Witness ==
  /\ EmptyBarCall /\ SuppliedPaletteLacksKey /\ call.ax = "None"
  /\ call.table.ncols >= SliceEnd
  /\ outcome = "IndexError"

====
